---- MODULE Spec2Model ----
(***************************************************************************)
(* Model of the highlighter extension: the content script                  *)
(* (src/content-script.js), the keyboard command of the service worker     *)
(* (src/service-worker.js) and the storage they share.                     *)
(*                                                                         *)
(* The page is a sequence of tokens, the serialisation of the DOM tree     *)
(* under document.body: a text node, the opening of an element, the        *)
(* closing of an element.  A JavaScript string is a tuple of one-character *)
(* strings.                                                                *)
(***************************************************************************)
EXTENDS Integers, Sequences, FiniteSets, TLC

VARIABLES doc, dom, stored, sq, load, sw, snap, overlaps, tab, area, probe

\* the page with its content script and the keyboard command
main == <<doc, dom, stored, sq, load, sw, snap, overlaps>>

\* the active tab, the storage area outside the array of the page, and the
\* call of a function that is followed on its own
aux == <<tab, area, probe>>

vars == <<doc, dom, stored, sq, load, sw, snap, overlaps, tab, area, probe>>

(***************************************************************************)
(* Bounds                                                                  *)
(***************************************************************************)
MaxTokens == 8
MaxOverlaps == 1
MaxStored == 3

(***************************************************************************)
(* Program constants                                                       *)
(***************************************************************************)
MAX_PERSISTED_PER_PAGE == 300
HIGHLIGHT_CLASS == "__safe_ext_highlight_v1"
FALLBACK_CLASS == "__simple_ext_highlight_safe"

(***************************************************************************)
(* Strings and colours                                                     *)
(***************************************************************************)
Min(a, b) == IF a < b THEN a ELSE b
Max(a, b) == IF a > b THEN a ELSE b

Take(s, n) == SubSeq(s, 1, Min(n, Len(s)))

HexDigits == {"0", "1", "2", "3", "4", "5", "6", "7", "8", "9",
              "a", "b", "c", "d", "e", "f", "A", "B", "C", "D", "E", "F"}

\* a validator that takes any number of digits from 3 to 6
isValidHexColorAnyLength(c) ==
    /\ Len(c) \in 4..7
    /\ c[1] = "#"
    /\ \A i \in 2..Len(c) : c[i] \in HexDigits

\* /^#([0-9A-Fa-f]{3}|[0-9A-Fa-f]{6})$/.test(c) of the content script
isValidHexColor(c) ==
    /\ Len(c) \in {4, 7}
    /\ c[1] = "#"
    /\ \A i \in 2..Len(c) : c[i] \in HexDigits

\* the copy of the service worker
isValidHexColorSw(c) ==
    /\ c # <<>> /\ Head(c) = "#"
    /\ \/ Len(Tail(c)) = 3 /\ \A i \in 1..3 : Tail(c)[i] \in HexDigits
       \/ Len(Tail(c)) = 6 /\ \A i \in 1..6 : Tail(c)[i] \in HexDigits

\* the copy of the popup
isValidHexColorPopup(c) ==
    /\ c # <<>> /\ Head(c) = "#"
    /\ \/ Len(Tail(c)) = 3 /\ \A i \in 1..3 : Tail(c)[i] \in HexDigits
       \/ Len(Tail(c)) = 6 /\ \A i \in 1..6 : Tail(c)[i] \in HexDigits

HexVal(h) ==
    CASE h = "0" -> 0 [] h = "1" -> 1 [] h = "2" -> 2 [] h = "3" -> 3
      [] h = "4" -> 4 [] h = "5" -> 5 [] h = "6" -> 6 [] h = "7" -> 7
      [] h = "8" -> 8 [] h = "9" -> 9
      [] h \in {"a", "A"} -> 10 [] h \in {"b", "B"} -> 11
      [] h \in {"c", "C"} -> 12 [] h \in {"d", "D"} -> 13
      [] h \in {"e", "E"} -> 14 [] h \in {"f", "F"} -> 15

DigitChar == <<"0", "1", "2", "3", "4", "5", "6", "7", "8", "9">>

RECURSIVE Dec(_)
Dec(n) == IF n < 10 THEN <<DigitChar[n + 1]>>
          ELSE Dec(n \div 10) \o <<DigitChar[(n % 10) + 1]>>

RgbString(r, g, b) ==
    <<"r", "g", "b", "(">> \o Dec(r) \o <<",", " ">> \o Dec(g)
        \o <<",", " ">> \o Dec(b) \o <<")">>

\* What element.style.backgroundColor reads back after it was assigned c:
\* the browser parses the value and serialises opaque colours as
\* "rgb(r, g, b)".  A value that does not parse leaves the property empty.
StyleColor(c) ==
    IF isValidHexColor(c)
    THEN IF Len(c) = 4
         THEN RgbString(17 * HexVal(c[2]), 17 * HexVal(c[3]), 17 * HexVal(c[4]))
         ELSE RgbString(16 * HexVal(c[2]) + HexVal(c[3]),
                        16 * HexVal(c[4]) + HexVal(c[5]),
                        16 * HexVal(c[6]) + HexVal(c[7]))
    ELSE IF Len(c) > 4 /\ SubSeq(c, 1, 4) = <<"r", "g", "b", "(">>
         THEN c
         ELSE <<>>

(***************************************************************************)
(* The DOM as a token sequence                                             *)
(***************************************************************************)
TextTok(v) == [t |-> "T", v |-> v, cls |-> "", bg |-> <<>>]
OpenTok(cls, bg) == [t |-> "O", v |-> <<>>, cls |-> cls, bg |-> bg]
CloseTok == [t |-> "C", v |-> <<>>, cls |-> "", bg |-> <<>>]

SpanToks(cls, bg, text) == <<OpenTok(cls, bg), TextTok(text), CloseTok>>

RECURSIVE ScanClose(_, _, _)
ScanClose(d, j, depth) ==
    IF j > Len(d) THEN Len(d) + 1
    ELSE IF d[j].t = "O" THEN ScanClose(d, j + 1, depth + 1)
    ELSE IF d[j].t = "C"
         THEN IF depth = 0 THEN j ELSE ScanClose(d, j + 1, depth - 1)
    ELSE ScanClose(d, j + 1, depth)

\* the closing token of the element opened at i
MatchClose(d, i) == ScanClose(d, i + 1, 0)

RECURSIVE ScanOpen(_, _, _)
ScanOpen(d, j, depth) ==
    IF j < 1 THEN 0
    ELSE IF d[j].t = "C" THEN ScanOpen(d, j - 1, depth + 1)
    ELSE IF d[j].t = "O"
         THEN IF depth = 0 THEN j ELSE ScanOpen(d, j - 1, depth - 1)
    ELSE ScanOpen(d, j - 1, depth)

\* node.parentNode of the node that starts at token i (0 is document.body)
ParentOf(d, i) == ScanOpen(d, i - 1, 0)

\* the opening token of the element closed at j
MatchOpen(d, j) == ScanOpen(d, j - 1, 0)

Ancestors(d, i) ==
    {a \in 1..(i - 1) : d[a].t = "O" /\ MatchClose(d, a) > i}

\* parent.closest('.' + HIGHLIGHT_CLASS) / the ancestor walk of
\* selectionIsFullyHighlighted
HasHighlightAncestor(d, i) ==
    \E a \in Ancestors(d, i) : d[a].cls = HIGHLIGHT_CLASS

RECURSIVE TextContent(_, _, _)
\* node.textContent of the tokens a..b
TextContent(d, a, b) ==
    IF a > b THEN <<>>
    ELSE (IF d[a].t = "T" THEN d[a].v ELSE <<>>) \o TextContent(d, a + 1, b)

DocText(d) == TextContent(d, 1, Len(d))

RECURSIVE NormSeq(_, _)
\* merge runs of adjacent text nodes, drop the empty ones; acc is the text
\* of the run being collected
NormSeq(s, acc) ==
    IF s = <<>>
    THEN IF acc = <<>> THEN <<>> ELSE <<TextTok(acc)>>
    ELSE IF Head(s).t = "T"
         THEN NormSeq(Tail(s), acc \o Head(s).v)
         ELSE (IF acc = <<>> THEN <<>> ELSE <<TextTok(acc)>>)
                  \o <<Head(s)>> \o NormSeq(Tail(s), <<>>)

\* parent.normalize() where the parent is opened at p (0 is document.body)
Normalize(d, p) ==
    LET lo == p + 1
        hi == IF p = 0 THEN Len(d) ELSE MatchClose(d, p) - 1
    IN  SubSeq(d, 1, lo - 1) \o NormSeq(SubSeq(d, lo, hi), <<>>)
            \o SubSeq(d, hi + 1, Len(d))

\* parent.replaceChild(document.createTextNode(span.textContent), span);
\* parent.normalize()
Unwrap(d, a) ==
    LET b == MatchClose(d, a)
        r == SubSeq(d, 1, a - 1) \o <<TextTok(TextContent(d, a, b))>>
                 \o SubSeq(d, b + 1, Len(d))
    IN  Normalize(r, ParentOf(d, a))

\* document.querySelectorAll('span.' + cls), in document order
SpansOf(d, cls) ==
    LET F[i \in 0..Len(d)] ==
            IF i = 0 THEN <<>>
            ELSE IF d[i].t = "O" /\ d[i].cls = cls THEN Append(F[i - 1], i)
                 ELSE F[i - 1]
    IN  F[Len(d)]

(***************************************************************************)
(* Ranges.  A boundary point of a selection lies in a text node:           *)
(* [n |-> token of the text node, o |-> offset in its data].  Boundary     *)
(* points are ordered as in the tree: the point before token i is          *)
(* <<2i-1, 0>>, the point at offset o inside text token i is <<2i, o>>.    *)
(***************************************************************************)
PosLT(p, q) == p[1] < q[1] \/ (p[1] = q[1] /\ p[2] < q[2])
GapBefore(i) == <<2 * i - 1, 0>>
InText(i, o) == <<2 * i, o>>

Rng(sn, so, en, eo) == [sn |-> sn, so |-> so, en |-> en, eo |-> eo]
NoSel == Rng(0, 0, 0, 0)

LastTok(d, a) == IF d[a].t = "O" THEN MatchClose(d, a) ELSE a

\* range.intersectsNode(node), node starting at token a
IntersectsNode(d, r, a) ==
    /\ PosLT(GapBefore(a), InText(r.en, r.eo))
    /\ PosLT(InText(r.sn, r.so), GapBefore(LastTok(d, a) + 1))

\* range.toString() that forgets the nodes between the two boundary nodes
RangeTextEnds(d, r) ==
    IF r.sn = r.en
    THEN SubSeq(d[r.sn].v, r.so + 1, r.eo)
    ELSE SubSeq(d[r.sn].v, r.so + 1, Len(d[r.sn].v))
             \o SubSeq(d[r.en].v, 1, r.eo)

\* range.toString()
RangeText(d, r) ==
    IF r.sn = r.en
    THEN SubSeq(d[r.sn].v, r.so + 1, r.eo)
    ELSE SubSeq(d[r.sn].v, r.so + 1, Len(d[r.sn].v))
             \o TextContent(d, r.sn + 1, r.en - 1)
             \o SubSeq(d[r.en].v, 1, r.eo)

\* the closing tokens between the boundary nodes of elements that hold the
\* start of the range but not its end
ClosesBetween(d, r) ==
    LET F[i \in r.sn..(r.en - 1)] ==
            IF i = r.sn THEN <<>>
            ELSE IF d[i].t = "C" /\ MatchOpen(d, i) < r.sn
                 THEN Append(F[i - 1], d[i]) ELSE F[i - 1]
    IN  F[r.en - 1]

\* the opening tokens between the boundary nodes of elements that hold the
\* end of the range but not its start
OpensBetween(d, r) ==
    LET F[i \in r.sn..(r.en - 1)] ==
            IF i = r.sn THEN <<>>
            ELSE IF d[i].t = "O" /\ MatchClose(d, i) > r.en
                 THEN Append(F[i - 1], d[i]) ELSE F[i - 1]
    IN  F[r.en - 1]

\* range.deleteContents(); range.insertNode(span).  Nodes wholly inside the
\* range are removed, the two boundary text nodes are cut, elements that hold
\* only one boundary stay; the range collapses behind the last element that
\* holds the start but not the end, and the span goes there.  Within one text
\* node the node is split at the start offset.  at is the token of the span.
DeleteInsert(d, r, span) ==
    IF r.sn = r.en
    THEN [d |-> SubSeq(d, 1, r.sn - 1)
                  \o <<TextTok(SubSeq(d[r.sn].v, 1, r.so))>>
                  \o span
                  \o <<TextTok(SubSeq(d[r.sn].v, r.eo + 1, Len(d[r.sn].v)))>>
                  \o SubSeq(d, r.sn + 1, Len(d)),
          at |-> r.sn + 1]
    ELSE LET closes == ClosesBetween(d, r)
             opens == OpensBetween(d, r)
         IN  [d |-> SubSeq(d, 1, r.sn - 1)
                      \o <<TextTok(SubSeq(d[r.sn].v, 1, r.so))>>
                      \o closes \o span \o opens
                      \o <<TextTok(SubSeq(d[r.en].v, r.eo + 1, Len(d[r.en].v)))>>
                      \o SubSeq(d, r.en + 1, Len(d)),
              at |-> r.sn + 1 + Len(closes)]

\* element.textContent = text, for the element opened at a
SetTextContent(d, a, text) ==
    SubSeq(d, 1, a)
        \o (IF text = <<>> THEN <<>> ELSE <<TextTok(text)>>)
        \o SubSeq(d, MatchClose(d, a), Len(d))

\* the tokens of d without the element opened at a
RemoveNode(d, a) == SubSeq(d, 1, a - 1) \o SubSeq(d, MatchClose(d, a) + 1, Len(d))

ElemText(d, a) == TextContent(d, a, MatchClose(d, a))

\* the first half of mergeAdjacentSpans: previousSibling
MergePrev(d, at) ==
    IF at > 1 /\ d[at - 1].t = "C"
    THEN LET m == MatchOpen(d, at - 1)
         IN  IF d[m].cls = HIGHLIGHT_CLASS /\ d[m].bg = d[at].bg
             THEN [d |-> SetTextContent(RemoveNode(d, at), m,
                                        ElemText(d, m) \o ElemText(d, at)),
                   at |-> m]
             ELSE [d |-> d, at |-> at]
    ELSE [d |-> d, at |-> at]

\* the second half of mergeAdjacentSpans: nextSibling of what is left
MergeNext(d, at) ==
    LET n == MatchClose(d, at) + 1
    IN  IF n <= Len(d) /\ d[n].t = "O" /\ d[n].cls = HIGHLIGHT_CLASS
           /\ d[n].bg = d[at].bg
        THEN SetTextContent(RemoveNode(d, n), at, ElemText(d, at) \o ElemText(d, n))
        ELSE d

mergeAdjacentSpans(d, at) ==
    LET p == MergePrev(d, at) IN MergeNext(p.d, p.at)

insertHighlightForRange(d, r, color) ==
    LET di == DeleteInsert(d, r, SpanToks(HIGHLIGHT_CLASS, StyleColor(color),
                                          RangeText(d, r)))
    IN  mergeAdjacentSpans(di.d, di.at)

\* the text nodes the TreeWalker of selectionIsFullyHighlighted accepts.  The
\* walker is rooted at range.commonAncestorContainer and nextNode() never
\* returns the root: a range inside one text node yields no node at all.
WalkedTextNodes(d, r) ==
    IF r.sn = r.en THEN {}
    ELSE {i \in 1..Len(d) : d[i].t = "T" /\ d[i].v # <<>> /\ IntersectsNode(d, r, i)}

\* the toggle test answering true as soon as one walked node is highlighted
selectionIsFullyHighlightedAny(d, r) ==
    \E i \in WalkedTextNodes(d, r) : HasHighlightAncestor(d, i)

\* a walked text node without a highlight ancestor makes it false
selectionIsFullyHighlighted(d, r) ==
    \A i \in WalkedTextNodes(d, r) : HasHighlightAncestor(d, i)

\* the spans of the snapshot that range.intersectsNode accepts.  Unwrapping an
\* earlier span moves the live range's boundary points only towards the start
\* of the document, so the answer for a later span is the one of the original
\* range; a span inside an unwrapped span has left the document and is skipped.
SpansToUnwrap(d, r) ==
    {a \in 1..Len(d) :
        /\ d[a].t = "O" /\ d[a].cls = HIGHLIGHT_CLASS
        /\ IntersectsNode(d, r, a)
        /\ ~HasHighlightAncestor(d, a)}

\* the token of the k-th highlight span counted from the end of the document
RECURSIVE NthFromEnd(_, _, _)
NthFromEnd(d, i, k) ==
    IF d[i].t = "O" /\ d[i].cls = HIGHLIGHT_CLASS
    THEN IF k = 0 THEN i ELSE NthFromEnd(d, i - 1, k - 1)
    ELSE NthFromEnd(d, i - 1, k)

RECURSIVE UnwrapEach(_, _)
\* spans.forEach(...): todo holds, for each span still to unwrap and in
\* document order, the number of highlight spans that follow it
UnwrapEach(d, todo) ==
    IF todo = <<>> THEN d
    ELSE UnwrapEach(Unwrap(d, NthFromEnd(d, Len(d), Head(todo))), Tail(todo))

FollowCount(d, a) ==
    Cardinality({b \in (a + 1)..Len(d) : d[b].t = "O" /\ d[b].cls = HIGHLIGHT_CLASS})

UnwrapAll(d, S) ==
    LET all == SpansOf(d, HIGHLIGHT_CLASS)
        F[i \in 0..Len(all)] ==
            IF i = 0 THEN <<>>
            ELSE IF all[i] \in S THEN Append(F[i - 1], FollowCount(d, all[i]))
                 ELSE F[i - 1]
    IN  UnwrapEach(d, F[Len(all)])

\* the unwrapping that never reports what it removed
removeHighlightsSilently(d, r) ==
    [d |-> UnwrapAll(d, SpansToUnwrap(d, r)), removedAny |-> FALSE]

removeHighlightsIntersectingRange(d, r) ==
    [d |-> UnwrapAll(d, SpansToUnwrap(d, r)),
     removedAny |-> SpansToUnwrap(d, r) # {}]

\* the DOM part of clearAllHighlights
clearAllHighlights(d) ==
    UnwrapAll(d, {a \in 1..Len(d) : d[a].t = "O" /\ d[a].cls = HIGHLIGHT_CLASS
                                     /\ ~HasHighlightAncestor(d, a)})

(***************************************************************************)
(* Persistence                                                             *)
(***************************************************************************)
Rec(text, prefix, suffix, color) ==
    [text |-> text, prefix |-> prefix, suffix |-> suffix, color |-> color]

\* the array persistAllSpans hands to saveHighlightsArray
SpanRecords(d) ==
    LET all == SpansOf(d, HIGHLIGHT_CLASS)
    IN  Take([i \in 1..Len(all) |->
                 Rec(ElemText(d, all[i]), <<>>, <<>>, d[all[i]].bg)],
             MAX_PERSISTED_PER_PAGE)

\* what saveHighlightsArray writes
saveHighlightsArray(arr) == Take(arr, MAX_PERSISTED_PER_PAGE)

\* combined.indexOf(needle): -1 when absent
IndexOf(hay, needle) ==
    LET hits == {i \in 0..(Len(hay) - Len(needle)) :
                    SubSeq(hay, i + 1, i + Len(needle)) = needle}
    IN  IF hits = {} THEN -1 ELSE CHOOSE i \in hits : \A j \in hits : i <= j

\* the nodes array of tryApplyQuote: eligible text nodes with their offsets in
\* the combined text
EligibleNodes(d) ==
    LET F[i \in 0..Len(d)] ==
            IF i = 0 THEN <<>>
            ELSE IF d[i].t = "T" /\ d[i].v # <<>> /\ ~HasHighlightAncestor(d, i)
                 THEN LET total == IF F[i - 1] = <<>> THEN 0
                                   ELSE F[i - 1][Len(F[i - 1])].end
                      IN  Append(F[i - 1], [node |-> i, start |-> total,
                                            end |-> total + Len(d[i].v)])
                 ELSE F[i - 1]
    IN  F[Len(d)]

RECURSIVE Combined(_, _)
Combined(d, nodes) ==
    IF nodes = <<>> THEN <<>>
    ELSE d[Head(nodes).node].v \o Combined(d, Tail(nodes))

\* nodes.find(n => n.start <= k && n.end > k); 0 when there is none
FindNode(nodes, k) ==
    LET hits == {i \in 1..Len(nodes) : nodes[i].start <= k /\ nodes[i].end > k}
    IN  IF hits = {} THEN 0 ELSE CHOOSE i \in hits : \A j \in hits : i <= j

\* the range tryApplyQuote builds for rec, NoSel when it returns false
QuoteRange(d, rec) ==
    LET needle == rec.text
        nodes == EligibleNodes(d)
        idx == IndexOf(Combined(d, nodes), needle)
        si == FindNode(nodes, idx)
        ei == FindNode(nodes, idx + Len(needle) - 1)
    IN  IF needle = <<>> \/ nodes = <<>> \/ idx = -1 \/ si = 0 \/ ei = 0
        THEN NoSel
        ELSE LET startOffset == idx - nodes[si].start
             IN  Rng(nodes[si].node, startOffset, nodes[ei].node,
                     IF si = ei THEN startOffset + Len(needle)
                     ELSE idx + Len(needle) - nodes[ei].start)

\* the quote search answering true also when the text is not found
tryApplyQuoteAlways(d, rec) ==
    LET r == QuoteRange(d, rec)
    IN  IF r = NoSel THEN [d |-> d, found |-> TRUE]
        ELSE [d |-> insertHighlightForRange(d, r, rec.color), found |-> TRUE]

\* the quote search answering true exactly when the text is not found
tryApplyQuoteInverted(d, rec) ==
    LET r == QuoteRange(d, rec)
    IN  IF r = NoSel THEN [d |-> d, found |-> TRUE]
        ELSE [d |-> insertHighlightForRange(d, r, rec.color), found |-> FALSE]

\* tryApplyQuote: the page after the insertion and whether the text was found
tryApplyQuote(d, rec) ==
    LET r == QuoteRange(d, rec)
    IN  IF r = NoSel THEN [d |-> d, found |-> FALSE]
        ELSE [d |-> insertHighlightForRange(d, r, rec.color), found |-> TRUE]

\* one pass of the for loop of reapplyOnLoad
ReapplyStep(d, rec, kept) ==
    IF rec.text = <<>> \/ rec.color = <<>>
    THEN [d |-> d, kept |-> kept]
    ELSE LET t == tryApplyQuote(d, rec)
         IN  [d |-> t.d, kept |-> IF t.found THEN Append(kept, rec) ELSE kept]

RECURSIVE ReapplyLoop(_, _, _)
\* the for loop of reapplyOnLoad: the page and the kept array after it.  The
\* passes over the first half of arr are evaluated to their end (the test on
\* first) before those over the second half start, which keeps the
\* evaluation of an array of MAX_PERSISTED_PER_PAGE descriptors shallow.
ReapplyLoop(d, arr, kept) ==
    IF arr = <<>> THEN [d |-> d, kept |-> kept]
    ELSE IF Len(arr) = 1 THEN ReapplyStep(d, arr[1], kept)
    ELSE LET h == Len(arr) \div 2
             first == ReapplyLoop(d, SubSeq(arr, 1, h), kept)
         IN  IF Len(first.d) >= 0 /\ Len(first.kept) >= 0
             THEN ReapplyLoop(first.d, SubSeq(arr, h + 1, Len(arr)), first.kept)
             ELSE first

(***************************************************************************)
(* Inputs                                                                  *)
(***************************************************************************)
Yellow3 == <<"#", "f", "f", "0">>
Green3 == <<"#", "0", "f", "0">>
NotAColor == <<"r", "e", "d">>

MsgColors == {Yellow3, Green3, NotAColor}
CommandColors == {Yellow3}

El == "b"

\* the pages the browser may load
Docs ==
    { <<TextTok(<<"a", "b">>), OpenTok(El, <<>>), TextTok(<<"a">>), CloseTok>> }

\* pages whose text holds a space
WsDocs ==
    { <<TextTok(<<"a", " ">>), OpenTok(El, <<>>), TextTok(<<"a">>), CloseTok>> }

\* String.prototype.trim()
RECURSIVE TrimLeft(_)
TrimLeft(s) == IF s # <<>> /\ Head(s) = " " THEN TrimLeft(Tail(s)) ELSE s

RECURSIVE TrimRight(_)
TrimRight(s) ==
    IF s # <<>> /\ s[Len(s)] = " " THEN TrimRight(SubSeq(s, 1, Len(s) - 1)) ELSE s

Trim(s) == TrimRight(TrimLeft(s))

\* the selections a user can make: both boundary points in non-empty text
\* nodes, the start strictly before the end
Selections(d) ==
    {Rng(i, so, j, eo) : <<i, so, j, eo>> \in
        {q \in (1..Len(d)) \X (0..Len(DocText(d))) \X (1..Len(d)) \X (0..Len(DocText(d))) :
            /\ d[q[1]].t = "T" /\ d[q[1]].v # <<>> /\ q[2] <= Len(d[q[1]].v)
            /\ d[q[3]].t = "T" /\ d[q[3]].v # <<>> /\ q[4] <= Len(d[q[3]].v)
            /\ PosLT(InText(q[1], q[2]), InText(q[3], q[4]))}}

\* number of characters of the document before a boundary point
CharsBefore(d, n, o) == Len(TextContent(d, 1, n - 1)) + o

\* the marker elements of the page in document order, each with the
\* characters it spans
MarkList(d) ==
    LET F[i \in 0..Len(d)] ==
            IF i = 0 THEN <<>>
            ELSE IF d[i].t = "O" /\ d[i].cls \in {HIGHLIGHT_CLASS, FALLBACK_CLASS}
                 THEN Append(F[i - 1],
                             [s |-> CharsBefore(d, i, 0),
                              e |-> CharsBefore(d, i, 0) + Len(ElemText(d, i)),
                              bg |-> d[i].bg, cls |-> d[i].cls])
                 ELSE F[i - 1]
    IN  F[Len(d)]

\* per character of the document, the colour of the innermost marker around
\* it, <<>> when it is not marked
RECURSIVE CharMarks(_, _, _)
CharMarks(d, i, stack) ==
    IF i > Len(d) THEN <<>>
    ELSE IF d[i].t = "O"
         THEN CharMarks(d, i + 1,
                        IF d[i].cls \in {HIGHLIGHT_CLASS, FALLBACK_CLASS}
                        THEN <<d[i].bg>> \o stack ELSE <<"-">> \o stack)
    ELSE IF d[i].t = "C" THEN CharMarks(d, i + 1, Tail(stack))
    ELSE LET inner == SelectSeq(stack, LAMBDA x : x # "-")
         IN  [k \in 1..Len(d[i].v) |-> IF inner = <<>> THEN <<>> ELSE Head(inner)]
                 \o CharMarks(d, i + 1, stack)

Marks(d) == CharMarks(d, 1, <<>>)

(***************************************************************************)
(* State                                                                   *)
(*   doc     the page as the server delivers it                            *)
(*   dom     the live page                                                 *)
(*   stored  chrome.storage.local[storageKey()]                            *)
(*   sq      storage requests in flight, oldest first, each with the       *)
(*           continuation that waits for it                                *)
(*   load    where reapplyOnLoad of the current page stands                *)
(*   sw      where the keyboard command of the service worker stands       *)
(*   snap    the marks at the last reload, valid when the reload found the  *)
(*           page at rest with its marks persisted (history)               *)
(*   overlaps  how often a trigger arrived while storage requests of       *)
(*           earlier triggers were in flight (history, bounds the model)   *)
(***************************************************************************)
CONTEXT_CHARS == 60

NoQuote == Rec(<<>>, <<>>, <<>>, <<>>)

Req(op, val, k, from, reply) ==
    [op |-> op, val |-> val, k |-> k, from |-> from, reply |-> reply]

SwState(pc, color, sel, quote) ==
    [pc |-> pc, color |-> color, sel |-> sel, quote |-> quote]
SwIdle == SwState("idle", <<>>, NoSel, NoQuote)

NoSnap == [valid |-> FALSE, marks |-> <<>>]

\* a change of the page collapses the selection the command still holds
SelAfterMutation(w) ==
    IF w.pc \in {"extract", "insert"} THEN [w EXCEPT !.sel = NoSel] ELSE w

(***************************************************************************)
(* The active tab and the storage area                                     *)
(*   tab    the URL of the active tab: scheme, host, pathname, search      *)
(*   area   chrome.storage.local as a function from the keys that were     *)
(*          written to their values (in the specifications of the page the *)
(*          array of the page is stored, and area is not followed)         *)
(*   probe  the arguments and the result of a function followed on its own *)
(***************************************************************************)
Http == <<"h", "t", "t", "p">>
Https == <<"h", "t", "t", "p", "s">>
Chrome == <<"c", "h", "r", "o", "m", "e">>

Url(scheme, host, pathname, search) ==
    [scheme |-> scheme, host |-> host, pathname |-> pathname, search |-> search]

\* url as the string tab.url, and new URL(url).origin
Href(u) == u.scheme \o <<":", "/", "/">> \o u.host \o u.pathname \o u.search
Origin(u) == u.scheme \o <<":", "/", "/">> \o u.host

\* the pages of the web the tab may show
WebUrls ==
    {Url(sc, <<"a">>, pn, q) :
        sc \in {Http, Https}, pn \in {<<"/">>, <<"/", "p">>},
        q \in {<<>>, <<"?", "q">>}}

STORAGE_PREFIX == <<"h", "i", "g", "h", "l", "i", "g", "h", "t", "s", ":", ":">>
PREF_KEY ==
    <<"h", "i", "g", "h", "l", "i", "g", "h", "t", "e", "r", "_",
      "p", "r", "e", "f", "s", "_", "v", "1">>

\* storageKeyForUrl of the service worker ignoring the pathname
storageKeyForOrigin(u) == STORAGE_PREFIX \o Origin(u)

\* storageKeyForUrl of the service worker
storageKeyForUrl(u) == STORAGE_PREFIX \o Origin(u) \o <<":", ":">> \o u.pathname

\* storageKey of the content script that runs in the page u
storageKey(u) == STORAGE_PREFIX \o Origin(u) \o <<":", ":">> \o u.pathname

\* chrome.storage.local.set({[key]: val})
SetLocal(a, key, val) ==
    [k \in DOMAIN a \cup {key} |-> IF k = key THEN val ELSE a[k]]

\* readHighlightsArray of the content script in the page u: obj[key] || []
readHighlightsArray(a, u) ==
    IF storageKey(u) \in DOMAIN a THEN a[storageKey(u)] ELSE <<>>

\* persistHighlightForUrl: (getLocal(key) || []), push, setLocal
persistHighlightForUrl(a, u, rec) ==
    LET key == storageKeyForUrl(u)
        existing == IF key \in DOMAIN a THEN a[key] ELSE <<>>
    IN  SetLocal(a, key, Append(existing, rec))

EmptyArea == [k \in {} |-> <<>>]
HomeTab == Url(Http, <<"a">>, <<"/">>, <<>>)
NoProbe == [fn |-> "", arg |-> <<>>, out |-> <<>>]

\* in the specifications of the page the tab stays on the page and nothing
\* else is followed
AuxIdle ==
    /\ tab = HomeTab
    /\ area = EmptyArea
    /\ probe = NoProbe

\* in the specifications of the storage area and of single functions the
\* page is loaded, unmarked and at rest
MainIdle ==
    /\ doc \in Docs
    /\ dom = doc
    /\ stored = <<>>
    /\ sq = <<>>
    /\ load = "done"
    /\ sw = SwIdle
    /\ snap = NoSnap
    /\ overlaps = 0

\* a trigger that adds a storage request: when requests are still in flight it
\* overlaps them, which the model allows MaxOverlaps times
Enqueue(req) ==
    /\ sq = <<>> \/ overlaps < MaxOverlaps
    /\ sq' = Append(sq, req)
    /\ overlaps' = IF sq = <<>> THEN overlaps ELSE overlaps + 1

Init ==
    /\ doc \in Docs
    /\ dom = doc
    /\ stored = <<>>
    /\ sq = <<Req("get", <<>>, "reapply", "", "")>>
    /\ load = "get"
    /\ sw = SwIdle
    /\ snap = NoSnap
    /\ overlaps = 0
    /\ AuxIdle

\* the array an earlier visit has left under the page key when the page then
\* held MAX_PERSISTED_PER_PAGE marks
FullArray ==
    [i \in 1..MAX_PERSISTED_PER_PAGE |->
        Rec(<<"a">>, <<>>, <<>>, StyleColor(Yellow3))]

\* the page is opened again with that array in storage
InitFull ==
    /\ doc \in Docs
    /\ dom = doc
    /\ stored = FullArray
    /\ sq = <<Req("get", <<>>, "reapply", "", "")>>
    /\ load = "get"
    /\ sw = SwIdle
    /\ snap = NoSnap
    /\ overlaps = 0
    /\ AuxIdle

\* a page whose text holds a space is opened with nothing stored
InitWs ==
    /\ doc \in WsDocs
    /\ dom = doc
    /\ stored = <<>>
    /\ sq = <<Req("get", <<>>, "reapply", "", "")>>
    /\ load = "get"
    /\ sw = SwIdle
    /\ snap = NoSnap
    /\ overlaps = 0
    /\ AuxIdle

\* the 'highlight' branch of the message listener up to its first await
HighlightOutcome(d, c, r) ==
    LET color == Trim(c)
    IN  IF ~isValidHexColor(color)
        THEN [d |-> d, reply |-> "invalid_color", ok |-> FALSE, fully |-> FALSE]
        ELSE IF r = NoSel \/ Trim(RangeText(d, r)) = <<>>
        THEN [d |-> d, reply |-> "no_selection", ok |-> FALSE, fully |-> FALSE]
        ELSE IF selectionIsFullyHighlighted(d, r)
        THEN LET rm == removeHighlightsIntersectingRange(d, r)
             IN  IF rm.removedAny
                 THEN [d |-> rm.d, reply |-> "removed", ok |-> TRUE, fully |-> TRUE]
                 ELSE [d |-> rm.d, reply |-> "nothing_removed", ok |-> FALSE,
                       fully |-> TRUE]
        ELSE [d |-> insertHighlightForRange(d, r, color), reply |-> "applied",
              ok |-> TRUE, fully |-> FALSE]

\* a 'highlight' message reaches the listener, from the popup or from the
\* command of the service worker; on success persistAllSpans is awaited
OnHighlight(from, c, r) ==
    /\ from = "sw" => (sw.pc = "idle" /\ c \in CommandColors)
    /\ LET out == HighlightOutcome(dom, c, r)
       IN  /\ Len(out.d) <= MaxTokens
           /\ dom' = out.d
           /\ IF out.ok
              THEN Enqueue(Req("set", SpanRecords(out.d), "reply", from, out.reply))
              ELSE UNCHANGED <<sq, overlaps>>
           /\ sw' = IF from = "sw"
                    THEN IF out.ok THEN SwState("wait", c, NoSel, NoQuote)
                         ELSE SwState("extract", c, r, NoQuote)
                    ELSE IF out.ok THEN SelAfterMutation(sw) ELSE sw
           /\ snap' = IF out.ok THEN NoSnap ELSE snap
    /\ UNCHANGED <<doc, stored, load, tab, area, probe>>

\* a 'clearAll' message reaches the listener
OnClearAll ==
    /\ dom' = clearAllHighlights(dom)
    /\ Enqueue(Req("set", saveHighlightsArray(<<>>), "reply", "popup", "cleared"))
    /\ sw' = SelAfterMutation(sw)
    /\ snap' = NoSnap
    /\ UNCHANGED <<doc, stored, load, tab, area, probe>>

\* chrome.storage.local.get answers reapplyOnLoad: the loop runs and the kept
\* array is handed to saveHighlightsArray
ReapplyRead ==
    /\ sq # <<>> /\ Head(sq).op = "get" /\ Head(sq).k = "reapply"
    /\ IF stored = <<>>
       THEN /\ load' = "done"
            /\ sq' = Tail(sq)
            /\ UNCHANGED <<dom, sw>>
       ELSE LET res == ReapplyLoop(dom, stored, <<>>)
            IN  /\ dom' = res.d
                /\ sq' = Append(Tail(sq), Req("set", saveHighlightsArray(res.kept),
                                              "reapplySave", "", ""))
                /\ load' = "save"
                /\ sw' = SelAfterMutation(sw)
    /\ UNCHANGED <<doc, stored, snap, overlaps, tab, area, probe>>

\* chrome.storage.local.set completes and its continuation runs
WriteDone ==
    /\ sq # <<>> /\ Head(sq).op = "set"
    /\ stored' = Head(sq).val
    /\ sq' = Tail(sq)
    /\ load' = IF Head(sq).k = "reapplySave" THEN "done" ELSE load
    /\ sw' = IF (Head(sq).k = "reply" /\ Head(sq).from = "sw") \/ Head(sq).k = "swSet"
             THEN SwIdle ELSE sw
    /\ UNCHANGED <<doc, dom, snap, overlaps, tab, area, probe>>

\* a read whose page is gone: nobody waits for the answer
DeadRead ==
    /\ sq # <<>> /\ Head(sq).op = "get" /\ Head(sq).k = "dead"
    /\ sq' = Tail(sq)
    /\ UNCHANGED <<doc, dom, stored, load, sw, snap, overlaps, tab, area, probe>>

LastN(s, n) == SubSeq(s, Max(1, Len(s) - n + 1), Len(s))

\* extractQuoteFromPage
SwExtract ==
    /\ sw.pc = "extract"
    /\ sw' = IF sw.sel = NoSel \/ RangeText(dom, sw.sel) = <<>>
             THEN SwIdle
             ELSE SwState("insert", sw.color, sw.sel,
                          Rec(RangeText(dom, sw.sel),
                              LastN(TextContent(dom, 1, sw.sel.sn - 1)
                                        \o SubSeq(dom[sw.sel.sn].v, 1, sw.sel.so),
                                    CONTEXT_CHARS),
                              Take(SubSeq(dom[sw.sel.en].v, sw.sel.eo + 1,
                                          Len(dom[sw.sel.en].v))
                                       \o TextContent(dom, sw.sel.en + 1, Len(dom)),
                                   CONTEXT_CHARS),
                              sw.color))
    /\ UNCHANGED <<doc, dom, stored, sq, load, snap, overlaps, tab, area, probe>>

\* insertSpanOnPage, then persistHighlightForUrl up to its getLocal
SwInsert ==
    /\ sw.pc = "insert"
    /\ IF sw.sel = NoSel \/ RangeText(dom, sw.sel) = <<>>
       THEN /\ sw' = SwIdle
            /\ UNCHANGED <<dom, sq, snap, overlaps>>
       ELSE LET di == DeleteInsert(dom, sw.sel,
                                   SpanToks(FALLBACK_CLASS, StyleColor(sw.color),
                                            RangeText(dom, sw.sel)))
            IN  /\ Len(di.d) <= MaxTokens
                /\ dom' = di.d
                /\ Enqueue(Req("get", <<sw.quote>>, "swGet", "sw", ""))
                /\ sw' = SwState("persist", sw.color, NoSel, sw.quote)
                /\ snap' = NoSnap
    /\ UNCHANGED <<doc, stored, load, tab, area, probe>>

\* getLocal answers persistHighlightForUrl: arr.push(rec); setLocal
SwPersistRead ==
    /\ sq # <<>> /\ Head(sq).op = "get" /\ Head(sq).k = "swGet"
    /\ sq' = Append(Tail(sq), Req("set", stored \o Head(sq).val, "swSet", "sw", ""))
    /\ UNCHANGED <<doc, dom, stored, load, sw, snap, overlaps, tab, area, probe>>

Quiescent == sq = <<>> /\ load = "done" /\ sw.pc = "idle"

\* the continuations of the page that is unloaded never run; the writes they
\* issued still reach the storage
Orphan(q) ==
    [i \in 1..Len(q) |->
        IF q[i].k \in {"reply", "reapply", "reapplySave"}
        THEN [q[i] EXCEPT !.k = "dead"] ELSE q[i]]

\* the user reloads the page: the same document arrives, the content script
\* starts again and calls reapplyOnLoad
Reload ==
    /\ sq = <<>> \/ overlaps < MaxOverlaps
    /\ overlaps' = IF sq = <<>> THEN overlaps ELSE overlaps + 1
    /\ dom' = doc
    /\ sq' = Append(Orphan(sq), Req("get", <<>>, "reapply", "", ""))
    /\ load' = "get"
    /\ sw' = IF sw.pc \in {"wait", "extract", "insert"}
             THEN SwState("extract", sw.color, NoSel, NoQuote) ELSE sw
    /\ snap' = [valid |-> Quiescent /\ stored = SpanRecords(dom),
                marks |-> Marks(dom)]
    /\ UNCHANGED <<doc, stored, tab, area, probe>>

\* the popup sends 'highlight' with the colour of its picker
PopupHighlight ==
    \E c \in MsgColors, r \in Selections(dom) \cup {NoSel} :
        /\ (c = NotAColor \/ r = NoSel) => (c = NotAColor /\ r = NoSel)
        /\ OnHighlight("popup", c, r)

\* the keyboard command sends 'highlight' with prefs.lastColor.  The fallback
\* appends to the stored array without limit: the command is followed while
\* the array is shorter than MaxStored, and from the cap of the content
\* script upwards.
CommandHighlight ==
    /\ Len(stored) < MaxStored \/ Len(stored) >= MAX_PERSISTED_PER_PAGE
    /\ \E c \in CommandColors, r \in Selections(dom) \cup {NoSel} :
           OnHighlight("sw", c, r)

\* the content script driven from the popup
Next ==
    \/ PopupHighlight
    \/ OnClearAll
    \/ ReapplyRead
    \/ WriteDone
    \/ DeadRead
    \/ Reload

Spec == Init /\ [][Next]_vars

\* the content script driven by the keyboard command of the service worker
NextCmd ==
    \/ CommandHighlight
    \/ SwExtract
    \/ SwInsert
    \/ SwPersistRead
    \/ OnClearAll
    \/ ReapplyRead
    \/ WriteDone
    \/ DeadRead
    \/ Reload

SpecCmd == Init /\ [][NextCmd]_vars

SpecFull == InitFull /\ [][NextCmd]_vars

SpecWsCmd == InitWs /\ [][NextCmd]_vars

(***************************************************************************)
(* The storage area under the operations of several pages                  *)
(***************************************************************************)
DefaultPrefs ==
    [lastColor |-> <<"#", "f", "f", "f", "1", "7", "6">>, recents |-> <<>>]

\* the descriptor the operations of this part store
AreaRec == Rec(<<"a">>, <<>>, <<>>, Yellow3)

InitStore ==
    /\ MainIdle
    /\ tab \in WebUrls
    /\ area = SetLocal(EmptyArea, PREF_KEY, DefaultPrefs)
    /\ probe = NoProbe

\* the tab shows another page
Navigate ==
    /\ \E u \in WebUrls : tab' = u
    /\ UNCHANGED <<area, probe>>
    /\ UNCHANGED main

\* persistAllSpans of the page in the tab saves the array of its spans
AreaSave ==
    /\ \E n \in 1..MaxStored :
           area' = SetLocal(area, storageKey(tab),
                            saveHighlightsArray([i \in 1..n |-> AreaRec]))
    /\ UNCHANGED <<tab, probe>>
    /\ UNCHANGED main

\* reapplyOnLoad of the page in the tab saves the descriptors it kept
AreaReconcile ==
    /\ readHighlightsArray(area, tab) # <<>>
    /\ \E n \in 0..Len(readHighlightsArray(area, tab)) :
           area' = SetLocal(area, storageKey(tab),
                            saveHighlightsArray(Take(readHighlightsArray(area, tab), n)))
    /\ UNCHANGED <<tab, probe>>
    /\ UNCHANGED main

\* clearAllHighlights of the page in the tab saves the empty array
AreaClear ==
    /\ area' = SetLocal(area, storageKey(tab), saveHighlightsArray(<<>>))
    /\ UNCHANGED <<tab, probe>>
    /\ UNCHANGED main

\* the fallback of the keyboard command appends its record for the tab's URL
AreaAppend ==
    /\ Len(readHighlightsArray(area, tab)) < MaxStored
    /\ area' = persistHighlightForUrl(area, tab, AreaRec)
    /\ UNCHANGED <<tab, probe>>
    /\ UNCHANGED main

NextStore ==
    \/ Navigate
    \/ AreaSave
    \/ AreaReconcile
    \/ AreaClear
    \/ AreaAppend

SpecStore == InitStore /\ [][NextStore]_vars

(***************************************************************************)
(* The locator of the content script that stores quotes                    *)
(***************************************************************************)
MaxQuote == 2

\* String.prototype.slice(a, b) with 0 <= a
Slice(s, a, b) == SubSeq(s, a + 1, Min(b, Len(s)))

\* the indices array of a search that takes 'A' for 'a'
IndicesIgnoringCase(combined, needle) ==
    LET low(s) == [i \in 1..Len(s) |-> IF s[i] = "A" THEN "a" ELSE s[i]]
    IN  IF Len(needle) > Len(combined) THEN <<>>
        ELSE LET F[i \in -1..(Len(combined) - Len(needle))] ==
                     IF i = -1 THEN <<>>
                     ELSE IF low(SubSeq(combined, i + 1, i + Len(needle))) = low(needle)
                          THEN Append(F[i - 1], i)
                          ELSE F[i - 1]
             IN  F[Len(combined) - Len(needle)]

\* the indices array of findBestMatchForQuote: every index at which needle
\* appears in combined, ascending
Indices(combined, needle) ==
    IF Len(needle) > Len(combined) THEN <<>>
    ELSE LET F[i \in -1..(Len(combined) - Len(needle))] ==
                 IF i = -1 THEN <<>>
                 ELSE IF SubSeq(combined, i + 1, i + Len(needle)) = needle
                      THEN Append(F[i - 1], i)
                      ELSE F[i - 1]
         IN  F[Len(combined) - Len(needle)]

\* a score that does not look at the context
prefixSuffixScoreBlind(combined, quote, i) == 2

\* prefixSuffixScore(i) of findBestMatchForQuote
prefixSuffixScore(combined, quote, i) ==
    LET needle == quote.text
        prefixOK == IF quote.prefix # <<>>
                    THEN Slice(combined, Max(0, i - Len(quote.prefix)), i) = quote.prefix
                    ELSE TRUE
        suffixOK == IF quote.suffix # <<>>
                    THEN Slice(combined, i + Len(needle),
                               i + Len(needle) + Len(quote.suffix)) = quote.suffix
                    ELSE TRUE
    IN  (IF prefixOK THEN 1 ELSE 0) + (IF suffixOK THEN 1 ELSE 0)

\* indices.sort((a, b) => prefixSuffixScore(b) - prefixSuffixScore(a)): the
\* sort is stable, equal scores keep their ascending order
BestFirst(combined, quote, indices) ==
    LET scored(s) ==
            SelectSeq(indices, LAMBDA i : prefixSuffixScore(combined, quote, i) = s)
    IN  scored(2) \o scored(1) \o scored(0)

\* findBestMatchForQuote: the range of the match, NoSel for null
findBestMatchForQuote(d, quote) ==
    LET needle == quote.text
        nodes == EligibleNodes(d)
        combined == Combined(d, nodes)
        indices == Indices(combined, needle)
    IN  IF needle = <<>> \/ nodes = <<>> \/ indices = <<>> THEN NoSel
        ELSE LET bestIndex == Head(BestFirst(combined, quote, indices))
                 endIndexInCombined == bestIndex + Len(needle) - 1
                 si == FindNode(nodes, bestIndex)
                 ei == FindNode(nodes, endIndexInCombined)
             IN  IF si = 0 \/ ei = 0 THEN NoSel
                 ELSE LET startOffset == bestIndex - nodes[si].start
                      IN  Rng(nodes[si].node, startOffset, nodes[ei].node,
                              IF si = ei THEN startOffset + Len(needle)
                              ELSE endIndexInCombined - nodes[ei].start + 1)

Quote(text, prefix, suffix) == [text |-> text, prefix |-> prefix, suffix |-> suffix]

\* strings of a's and b's of m to n characters
Strs(m, n) == UNION {[1..k -> {"a", "b"}] : k \in m..n}

\* the quotes the locator is asked for
Quotes ==
    {Quote(t, p, s) : t \in Strs(1, MaxQuote), p \in Strs(0, MaxQuote),
                      s \in Strs(0, MaxQuote)}

\* pages in which a text occurs several times, in one text node, across
\* an element, and inside a marker, and a page in which it occurs only in
\* another case or with a space inside
LocDocs ==
    { <<TextTok(<<"a", "b", "a", "b">>), OpenTok(El, <<>>),
        TextTok(<<"a", "b">>), CloseTok>>,
      <<TextTok(<<"b", "a">>),
        OpenTok(HIGHLIGHT_CLASS, RgbString(255, 255, 0)),
        TextTok(<<"a", "b">>), CloseTok, TextTok(<<"a", "a", "b">>)>>,
      <<TextTok(<<"a", "a", "b">>), OpenTok(El, <<>>),
        TextTok(<<"b", "a">>), CloseTok, TextTok(<<"a", "b", "b">>)>>,
      <<TextTok(<<"A", "b", " ", "a", " ", "b">>)>> }

InitLocate ==
    /\ doc \in LocDocs
    /\ dom = doc
    /\ stored = <<>>
    /\ sq = <<>>
    /\ load = "done"
    /\ sw = SwIdle
    /\ snap = NoSnap
    /\ overlaps = 0
    /\ tab = HomeTab
    /\ area = EmptyArea
    /\ \E q \in Quotes : probe = [fn |-> "", arg |-> q, out |-> NoSel]

\* the locator is asked for the quote
Locate ==
    /\ probe.fn = ""
    /\ probe' = [fn |-> "findBestMatchForQuote", arg |-> probe.arg,
                 out |-> findBestMatchForQuote(dom, probe.arg)]
    /\ UNCHANGED <<tab, area>>
    /\ UNCHANGED main

SpecLocate == InitLocate /\ [][Locate]_vars

(***************************************************************************)
(* Marking a selection and locating its quote again                        *)
(***************************************************************************)
\* createQuoteFromSelection: the text of the range, the last CONTEXT_CHARS
\* characters before its start and the first CONTEXT_CHARS after its end
createQuoteFromSelection(d, r) ==
    Quote(RangeText(d, r),
          LastN(TextContent(d, 1, r.sn - 1) \o SubSeq(d[r.sn].v, 1, r.so),
                CONTEXT_CHARS),
          Take(SubSeq(d[r.en].v, r.eo + 1, Len(d[r.en].v))
                   \o TextContent(d, r.en + 1, Len(d)),
               CONTEXT_CHARS))

\* insertHighlightSpanAtRange: the page and the token of the new span
insertHighlightSpanAtRange(d, r, text, color) ==
    DeleteInsert(d, r, SpanToks(HIGHLIGHT_CLASS, StyleColor(color), text))

InitRoundTrip ==
    /\ doc \in LocDocs
    /\ dom = doc
    /\ stored = <<>>
    /\ sq = <<>>
    /\ load = "done"
    /\ sw = SwIdle
    /\ snap = NoSnap
    /\ overlaps = 0
    /\ tab = HomeTab
    /\ area = EmptyArea
    /\ \E r \in Selections(doc) :
           probe = [fn |-> "", arg |-> [sel |-> r, quote |-> Quote(<<>>, <<>>, <<>>), at |-> 0],
                    out |-> NoSel]

\* the 'highlight' message of the content script that stores quotes marks
\* the selection with its quote captured, and the quote is located in the
\* page that results
ApplyLocate ==
    /\ probe.fn = ""
    /\ LET r == probe.arg.sel
           quote == createQuoteFromSelection(dom, r)
           ins == insertHighlightSpanAtRange(dom, r, quote.text, Yellow3)
       IN  /\ Trim(quote.text) # <<>>
           /\ dom' = ins.d
           /\ probe' = [fn |-> "applyThenLocate",
                        arg |-> [sel |-> r, quote |-> quote, at |-> ins.at],
                        out |-> findBestMatchForQuote(ins.d, quote)]
    /\ UNCHANGED <<doc, stored, sq, load, sw, snap, overlaps, tab, area>>

SpecRoundTrip == InitRoundTrip /\ [][ApplyLocate]_vars

(***************************************************************************)
(* The preferences record                                                  *)
(***************************************************************************)
MAX_RECENTS == 5

\* String.prototype.toLowerCase() on the letters a colour can hold
ToLower(s) ==
    [i \in 1..Len(s) |->
        CASE s[i] = "A" -> "a" [] s[i] = "B" -> "b" [] s[i] = "C" -> "c"
          [] s[i] = "D" -> "d" [] s[i] = "E" -> "e" [] s[i] = "F" -> "f"
          [] OTHER -> s[i]]

\* addColorToRecents removing only the entries spelled exactly like color
addColorToRecentsCaseSensitive(a, color) ==
    IF ~isValidHexColor(color) THEN a
    ELSE LET prefs == IF PREF_KEY \in DOMAIN a THEN a[PREF_KEY] ELSE DefaultPrefs
             updated == Take(<<color>> \o SelectSeq(prefs.recents,
                                                    LAMBDA c : c # color),
                             MAX_RECENTS)
         IN  SetLocal(a, PREF_KEY, [lastColor |-> color, recents |-> updated])

\* addColorToRecents of the service worker
addColorToRecents(a, color) ==
    IF ~isValidHexColor(color) THEN a
    ELSE LET prefs == IF PREF_KEY \in DOMAIN a THEN a[PREF_KEY] ELSE DefaultPrefs
             updated == Take(<<color>> \o SelectSeq(prefs.recents,
                                 LAMBDA c : ToLower(c) # ToLower(color)),
                             MAX_RECENTS)
         IN  SetLocal(a, PREF_KEY, [lastColor |-> color, recents |-> updated])

\* loadPrefs of the popup
loadPrefs(a) ==
    IF PREF_KEY \notin DOMAIN a THEN DefaultPrefs
    ELSE [lastColor |-> IF isValidHexColor(a[PREF_KEY].lastColor)
                        THEN a[PREF_KEY].lastColor ELSE DefaultPrefs.lastColor,
          recents |-> Take(SelectSeq(a[PREF_KEY].recents, isValidHexColor),
                           MAX_RECENTS)]

\* savePrefs of the popup
savePrefs(a, prefs) ==
    SetLocal(a, PREF_KEY, [lastColor |-> prefs.lastColor,
                           recents |-> Take(prefs.recents, MAX_RECENTS)])

\* addToRecents of the popup
addToRecents(a, color) ==
    IF ~isValidHexColor(color) THEN a
    ELSE LET prefs == loadPrefs(a)
         IN  savePrefs(a, [lastColor |-> color,
                           recents |-> Take(<<color>> \o SelectSeq(prefs.recents,
                                                LAMBDA c : ToLower(c) # ToLower(color)),
                                            MAX_RECENTS)])

\* setLastColorOnly of the popup
setLastColorOnly(a, color) ==
    IF ~isValidHexColor(color) THEN a
    ELSE savePrefs(a, [lastColor |-> color, recents |-> loadPrefs(a).recents])

\* the colours passed to the functions: six colours, one of them in both
\* cases, and a string that is no colour
PrefColors ==
    {<<"#", h, h, h>> : h \in {"a", "A", "b", "c", "d", "e", "f"}} \cup {NotAColor}

\* the preferences record is absent, the default, or a record written before
InitRecents ==
    /\ MainIdle
    /\ tab = HomeTab
    /\ area \in {EmptyArea,
                 SetLocal(EmptyArea, PREF_KEY, DefaultPrefs),
                 SetLocal(EmptyArea, PREF_KEY,
                          [lastColor |-> <<"#", "b", "b", "b">>,
                           recents |-> << <<"#", "b", "b", "b">>,
                                          <<"#", "A", "A", "A">> >>])}
    /\ probe = NoProbe

\* the service worker calls addColorToRecents
SwAddColor ==
    /\ \E c \in PrefColors :
           /\ area' = addColorToRecents(area, c)
           /\ probe' = IF isValidHexColor(c)
                       THEN [fn |-> "addColorToRecents", arg |-> c, out |-> <<>>]
                       ELSE probe
    /\ UNCHANGED tab
    /\ UNCHANGED main

\* the popup calls addToRecents
PopupAddColor ==
    /\ \E c \in PrefColors :
           /\ area' = addToRecents(area, c)
           /\ probe' = IF isValidHexColor(c)
                       THEN [fn |-> "addToRecents", arg |-> c, out |-> <<>>]
                       ELSE probe
    /\ UNCHANGED tab
    /\ UNCHANGED main

NextRecents ==
    \/ SwAddColor
    \/ PopupAddColor

SpecRecents == InitRecents /\ [][NextRecents]_vars

(***************************************************************************)
(* The handlers of the service worker and of the popups, each followed as  *)
(* one step from the trigger to its last write: the page of the tab, the   *)
(* storage area with the array of the page and the preferences record,     *)
(* and in probe the handler, its outcome and the calls it made into the    *)
(* tab.                                                                    *)
(***************************************************************************)
MaxAppend == 1

File == <<"f", "i", "l", "e">>

\* pages that are not of the web
OtherUrls ==
    {Url(Chrome, <<"x">>, <<"/">>, <<>>), Url(File, <<>>, <<"/", "p">>, <<>>)}

\* String.prototype.startsWith
StartsWith(s, p) == Len(s) >= Len(p) /\ SubSeq(s, 1, Len(p)) = p

\* a test of the URL that lets every page pass
IsWebUrlAny(url) == TRUE

\* tab.url.startsWith('http://') || tab.url.startsWith('https://')
IsWebUrl(url) ==
    \/ StartsWith(url, Http \o <<":", "/", "/">>)
    \/ StartsWith(url, Https \o <<":", "/", "/">>)

Done(d, a, outcome, calls) ==
    [d |-> d, a |-> a, outcome |-> outcome, calls |-> calls]

\* the listener of chrome.commands.onCommand for the selection r
onCommand(d, a, u, r) ==
    IF ~IsWebUrl(Href(u)) THEN Done(d, a, "bad_scheme", <<>>)
    ELSE LET prefs == IF PREF_KEY \in DOMAIN a THEN a[PREF_KEY] ELSE DefaultPrefs
             color == IF isValidHexColor(prefs.lastColor)
                      THEN prefs.lastColor ELSE DefaultPrefs.lastColor
             resp == HighlightOutcome(d, color, r)
         IN  IF resp.ok
             THEN Done(resp.d,
                       addColorToRecents(
                           SetLocal(a, storageKey(u),
                                    saveHighlightsArray(SpanRecords(resp.d))),
                           color),
                       resp.reply, <<"sendMessage">>)
             ELSE IF r = NoSel \/ RangeText(d, r) = <<>>
             THEN Done(d, a, resp.reply, <<"sendMessage", "executeScript">>)
             ELSE LET quote == createQuoteFromSelection(d, r)
                      ins == DeleteInsert(d, r,
                                          SpanToks(FALLBACK_CLASS, StyleColor(color),
                                                   RangeText(d, r)))
                  IN  Done(ins.d,
                           addColorToRecents(
                               persistHighlightForUrl(
                                   a, u, Rec(quote.text, quote.prefix,
                                             quote.suffix, color)),
                               color),
                           "fallback",
                           <<"sendMessage", "executeScript", "executeScript">>)

\* the click on 'highlight' in the popup that sends messages
popupHighlight(d, a, u, r) ==
    LET color == loadPrefs(a).lastColor
    IN  IF ~IsWebUrl(Href(u)) THEN Done(d, a, "bad_scheme", <<>>)
        ELSE LET res == HighlightOutcome(d, color, r)
             IN  IF res.ok
                 THEN Done(res.d,
                           addToRecents(
                               SetLocal(a, storageKey(u),
                                        saveHighlightsArray(SpanRecords(res.d))),
                               color),
                           res.reply, <<"sendMessage">>)
                 ELSE Done(d, a, res.reply, <<"sendMessage">>)

\* the click on 'clear' in the popup that sends messages
popupClearAll(d, a, u) ==
    IF ~IsWebUrl(Href(u)) THEN Done(d, a, "bad_scheme", <<>>)
    ELSE Done(clearAllHighlights(d),
              SetLocal(a, storageKey(u), saveHighlightsArray(<<>>)),
              "cleared", <<"sendMessage">>)

\* injectedHighlightFunction of the popup that injects its functions
injectedHighlightFunction(d, r, highlightColor) ==
    IF ~isValidHexColor(highlightColor) THEN [d |-> d, outcome |-> "invalid_color"]
    ELSE IF r = NoSel THEN [d |-> d, outcome |-> "no_selection"]
    ELSE IF RangeText(d, r) = <<>> THEN [d |-> d, outcome |-> "empty_text"]
    ELSE [d |-> DeleteInsert(d, r, SpanToks(FALLBACK_CLASS,
                                            StyleColor(highlightColor),
                                            RangeText(d, r))).d,
          outcome |-> "injected"]

RECURSIVE injectedClearHighlightsFunction(_)
\* injectedClearHighlightsFunction of the popup that injects its functions
injectedClearHighlightsFunction(d) ==
    LET list == SpansOf(d, FALLBACK_CLASS)
    IN  IF list = <<>> THEN d
        ELSE injectedClearHighlightsFunction(Unwrap(d, list[Len(list)]))

\* runOnActiveTab of the popup that injects its functions: fn is
\* "highlight" or "clear"
runOnActiveTab(d, a, u, fn, r, color) ==
    IF ~IsWebUrl(Href(u)) THEN Done(d, a, "bad_scheme", <<>>)
    ELSE IF fn = "highlight"
    THEN LET res == injectedHighlightFunction(d, r, color)
         IN  Done(res.d, a, res.outcome, <<"executeScript">>)
    ELSE Done(injectedClearHighlightsFunction(d), a, "cleared", <<"executeScript">>)

\* the colours of the colour picker
PickerColors == {Yellow3}

InitTab ==
    /\ MainIdle
    /\ tab \in {HomeTab, Url(Https, <<"a">>, <<"/">>, <<>>)} \cup OtherUrls
    /\ area = EmptyArea
    /\ probe = [fn |-> "", arg |-> "", out |-> <<>>]

\* the page and the storage area after a handler, and the handler in probe
Handled(fn, res) ==
    /\ Len(res.d) <= MaxTokens
    /\ dom' = res.d
    /\ area' = res.a
    /\ probe' = [fn |-> fn, arg |-> res.outcome, out |-> res.calls]
    /\ UNCHANGED <<doc, stored, sq, load, sw, snap, overlaps, tab>>

\* the colour picker or a swatch of the popup is used
PickColor ==
    \E c \in PickerColors :
        Handled("setLastColorOnly", Done(dom, setLastColorOnly(area, c), "picked", <<>>))

\* the keyboard command is pressed.  It is followed while the array of the
\* page holds fewer than MaxAppend descriptors.
KeyCommand ==
    /\ Len(readHighlightsArray(area, tab)) < MaxAppend
    /\ \E r \in Selections(dom) \cup {NoSel} :
           Handled("onCommand", onCommand(dom, area, tab, r))

PopupMessageHighlight ==
    \E r \in Selections(dom) \cup {NoSel} :
        Handled("popupHighlight", popupHighlight(dom, area, tab, r))

PopupMessageClear ==
    Handled("popupClearAll", popupClearAll(dom, area, tab))

PopupInjectHighlight ==
    \E r \in Selections(dom) \cup {NoSel} :
        Handled("runOnActiveTab",
                runOnActiveTab(dom, area, tab, "highlight", r, Yellow3))

PopupInjectClear ==
    Handled("runOnActiveTab",
            runOnActiveTab(dom, area, tab, "clear", NoSel, Yellow3))

NextTab ==
    \/ PickColor
    \/ KeyCommand
    \/ PopupMessageHighlight
    \/ PopupMessageClear
    \/ PopupInjectHighlight
    \/ PopupInjectClear

SpecTab == InitTab /\ [][NextTab]_vars

(***************************************************************************)
(* The colour validators on their own                                      *)
(***************************************************************************)
\* the strings handed to the validators: the examples of the
\* documentation, every string of up to four of the characters # a F g 0,
\* and # followed by up to seven of the characters 9 and g
HexInputs ==
    { <<"#", "A", "B", "C">>, <<"#", "a", "a", "b", "b", "c", "c">>,
      <<"r", "e", "d">>, <<"#", "1", "2", "3", "4", "5">>,
      <<"#", "g", "g", "g", "g", "g", "g">>, <<>> }
    \cup UNION {[1..k -> {"#", "a", "F", "g", "0"}] : k \in 0..4}
    \cup {<<"#">> \o s : s \in UNION {[1..k -> {"9", "g"}] : k \in 4..7}}

InitHex ==
    /\ MainIdle
    /\ tab = HomeTab
    /\ area = EmptyArea
    /\ \E c \in HexInputs : probe = [fn |-> "", arg |-> c, out |-> <<>>]

\* the three validators are asked about the string
Validate ==
    /\ probe.fn = ""
    /\ probe' = [fn |-> "isValidHexColor", arg |-> probe.arg,
                 out |-> [content |-> isValidHexColor(probe.arg),
                          worker |-> isValidHexColorSw(probe.arg),
                          popup |-> isValidHexColorPopup(probe.arg)]]
    /\ UNCHANGED <<tab, area>>
    /\ UNCHANGED main

SpecHex == InitHex /\ [][Validate]_vars

(***************************************************************************)
(* The message listener of the content script, one message at a time       *)
(*   probe.arg  the message the listener was called with                   *)
(*   probe.out  the responses it has sent, and whether its async function  *)
(*              has ended (by a return or by an exception)                 *)
(***************************************************************************)
\* a message: null, or an object with its action ("" when there is none) and
\* its color, which is a string, a number or undefined
Msg(action, colorType, color) ==
    [null |-> FALSE, action |-> action, colorType |-> colorType, color |-> color]
NullMsg == [null |-> TRUE, action |-> "", colorType |-> "undefined", color |-> <<>>]

Messages ==
    {NullMsg}
    \cup {Msg(a, "undefined", <<>>) :
            a \in {"", "highlight", "clearAll", "getPrefs", "other"}}
    \cup {Msg("highlight", "string", c) : c \in MsgColors}
    \cup {Msg("highlight", "number", <<>>)}

Listening(m, responses, ended) ==
    [fn |-> "onMessage", arg |-> m,
     out |-> [responses |-> responses, ended |-> ended]]

InitListener ==
    /\ MainIdle
    /\ tab = HomeTab
    /\ area = EmptyArea
    /\ probe = [fn |-> "", arg |-> NullMsg,
                out |-> [responses |-> <<>>, ended |-> TRUE]]

\* the listener is called with m while the selection is r, and runs up to its
\* first await or to its end
OnMessage(m, r) ==
    /\ probe.out.ended
    /\ IF m.null \/ m.action = ""
       THEN /\ probe' = Listening(m, <<"bad_message">>, TRUE)
            /\ UNCHANGED <<dom, sq>>
       ELSE IF m.action = "highlight"
       THEN IF m.colorType = "number"
            \* (msg.color || '').trim is not a function: the exception leaves
            \* the async function before its try block
            THEN /\ probe' = Listening(m, <<>>, TRUE)
                 /\ UNCHANGED <<dom, sq>>
            ELSE LET out == HighlightOutcome(dom, m.color, r)
                 IN  /\ Len(out.d) <= MaxTokens
                     /\ dom' = out.d
                     /\ IF out.ok
                        THEN /\ sq' = <<Req("set", SpanRecords(out.d), "reply",
                                            "popup", out.reply)>>
                             /\ probe' = Listening(m, <<>>, FALSE)
                        ELSE /\ sq' = sq
                             /\ probe' = Listening(m, <<out.reply>>, TRUE)
       ELSE IF m.action = "clearAll"
       THEN /\ dom' = clearAllHighlights(dom)
            /\ sq' = <<Req("set", saveHighlightsArray(<<>>), "reply", "popup",
                           "cleared")>>
            /\ probe' = Listening(m, <<>>, FALSE)
       ELSE IF m.action = "getPrefs"
       THEN /\ probe' = Listening(m, <<"prefs">>, TRUE)
            /\ UNCHANGED <<dom, sq>>
       ELSE /\ probe' = Listening(m, <<"unknown_action">>, TRUE)
            /\ UNCHANGED <<dom, sq>>
    /\ UNCHANGED <<doc, stored, load, sw, snap, overlaps, tab, area>>

\* the callback of chrome.storage.local.set fires: the await ends and the
\* listener sends its response
OnSetCallback ==
    /\ sq # <<>> /\ Head(sq).op = "set" /\ Head(sq).k = "reply"
    /\ stored' = Head(sq).val
    /\ sq' = Tail(sq)
    /\ probe' = Listening(probe.arg, Append(probe.out.responses, Head(sq).reply),
                          TRUE)
    /\ UNCHANGED <<doc, dom, load, sw, snap, overlaps, tab, area>>

NextListener ==
    \/ \E m \in Messages, r \in Selections(dom) \cup {NoSel} : OnMessage(m, r)
    \/ OnSetCallback

SpecListener == InitListener /\ [][NextListener]_vars

\* a page in which the text 'aa' follows a 'b' that stands between two 'a'
GapDocs ==
    { <<TextTok(<<"a", "b", "a", "a">>)>> }

\* that page is opened with nothing stored
InitGap ==
    /\ doc \in GapDocs
    /\ dom = doc
    /\ stored = <<>>
    /\ sq = <<Req("get", <<>>, "reapply", "", "")>>
    /\ load = "get"
    /\ sw = SwIdle
    /\ snap = NoSnap
    /\ overlaps = 0
    /\ AuxIdle

\* that page driven by the keyboard command
SpecGap == InitGap /\ [][NextCmd]_vars

(***************************************************************************)
(* The identity of the descriptors: data-ext-id of the spans, id and       *)
(* createdAt of the stored records.  The page is a row of passages with    *)
(* distinct texts, each unmarked or wrapped by one span.                   *)
(*   probe.arg  per passage the data-ext-id of its span, 0 when unmarked   *)
(*   probe.out  Date.now() at the last operation, and how many ids genId   *)
(*              has made (the n-th id is n)                                *)
(*   area       the stored array under the key of the page                 *)
(***************************************************************************)
MaxClock == 3
MaxIds == 4

Passages == << <<"a">>, <<"b">> >>

SpanIds(spans, now, made) ==
    [fn |-> "spans", arg |-> spans, out |-> [now |-> now, made |-> made]]

\* persistAllSpans at the time now: one record per span in document order
persistAllSpans(spans, now) ==
    LET F[p \in 0..Len(spans)] ==
            IF p = 0 THEN <<>>
            ELSE IF spans[p] = 0 THEN F[p - 1]
                 ELSE Append(F[p - 1],
                             [id |-> spans[p], text |-> Passages[p],
                              prefix |-> <<>>, suffix |-> <<>>,
                              color |-> StyleColor(Yellow3),
                              createdAt |-> now, updatedAt |-> now])
    IN  F[Len(spans)]

\* the spans after the loop of reapplyOnLoad over arr: tryApplyQuote finds the
\* passage by rec.text and insertHighlightForRange gives the span a new id
\* from genId, the i-th located record the i-th new one
ReappliedSpans(arr, made) ==
    [p \in 1..Len(Passages) |->
        IF \E i \in DOMAIN arr : arr[i].text = Passages[p]
        THEN made + CHOOSE i \in DOMAIN arr : arr[i].text = Passages[p]
        ELSE 0]

InitIdentity ==
    /\ MainIdle
    /\ tab = HomeTab
    /\ area = EmptyArea
    /\ probe = SpanIds([p \in 1..Len(Passages) |-> 0], 0, 0)

\* 'highlight' on the unmarked passage p: insertHighlightForRange sets
\* data-ext-id to genId(), then persistAllSpans saves
MarkPassage(p) ==
    /\ probe.arg[p] = 0
    /\ probe.out.made < MaxIds
    /\ \E now \in {probe.out.now, probe.out.now + 1} :
           /\ now <= MaxClock
           /\ LET spans == [probe.arg EXCEPT ![p] = probe.out.made + 1]
              IN  /\ area' = SetLocal(area, storageKey(tab),
                                      persistAllSpans(spans, now))
                  /\ probe' = SpanIds(spans, now, probe.out.made + 1)
    /\ UNCHANGED <<doc, dom, stored, sq, load, sw, snap, overlaps, tab>>

\* 'highlight' on the marked passage p: its span is unwrapped, then
\* persistAllSpans saves
UnmarkPassage(p) ==
    /\ probe.arg[p] # 0
    /\ \E now \in {probe.out.now, probe.out.now + 1} :
           /\ now <= MaxClock
           /\ LET spans == [probe.arg EXCEPT ![p] = 0]
              IN  /\ area' = SetLocal(area, storageKey(tab),
                                      persistAllSpans(spans, now))
                  /\ probe' = SpanIds(spans, now, probe.out.made)
    /\ UNCHANGED <<doc, dom, stored, sq, load, sw, snap, overlaps, tab>>

\* the page is loaded again: reapplyOnLoad reads the array, marks every
\* record it locates and saves the kept records as they are
ReloadPage ==
    LET arr == readHighlightsArray(area, tab)
    IN  /\ probe.out.made + Len(arr) <= MaxIds
        /\ area' = IF arr = <<>> THEN area
                   ELSE SetLocal(area, storageKey(tab), saveHighlightsArray(arr))
        /\ probe' = SpanIds(ReappliedSpans(arr, probe.out.made), probe.out.now,
                            probe.out.made + Len(arr))
        /\ UNCHANGED <<doc, dom, stored, sq, load, sw, snap, overlaps, tab>>

NextIdentity ==
    \/ \E p \in 1..Len(Passages) : MarkPassage(p)
    \/ \E p \in 1..Len(Passages) : UnmarkPassage(p)
    \/ ReloadPage

SpecIdentity == InitIdentity /\ [][NextIdentity]_vars

(***************************************************************************)
(* Vocabulary of the properties.  A mark is a marker element with text; a  *)
(* character is numbered by its place in the text of the document.         *)
(***************************************************************************)
ValidColors == {c \in MsgColors : isValidHexColor(Trim(c))}

\* the selections the 'highlight' handler accepts
UserSelections(d) == {r \in Selections(d) : Trim(RangeText(d, r)) # <<>>}

SelFrom(d, r) == CharsBefore(d, r.sn, r.so)
SelTo(d, r) == CharsBefore(d, r.en, r.eo)
SelChars(d, r) == (SelFrom(d, r) + 1)..SelTo(d, r)

\* the markers of the content script, and those of them that hold text
HlList(d) == SelectSeq(MarkList(d), LAMBDA m : m.cls = HIGHLIGHT_CLASS)
HlMarks(d) == SelectSeq(HlList(d), LAMBDA m : m.s < m.e)

MarkChars(m) == (m.s + 1)..m.e

Covered(d, k) == \E i \in DOMAIN HlMarks(d) : k \in MarkChars(HlMarks(d)[i])

RemoveAt(s, i) == SubSeq(s, 1, i - 1) \o SubSeq(s, i + 1, Len(s))

NewMark(d, c, r) ==
    [s |-> SelFrom(d, r), e |-> SelTo(d, r), bg |-> StyleColor(Trim(c)),
     cls |-> HIGHLIGHT_CLASS]

\* two markers of the content script with text, of one colour, with nothing
\* but empty text nodes between the end of the first and the start of the second
AdjacentSameColour(d) ==
    \E a, b \in {SpansOf(d, HIGHLIGHT_CLASS)[i] : i \in DOMAIN SpansOf(d, HIGHLIGHT_CLASS)} :
        /\ MatchClose(d, a) < b
        /\ d[a].bg = d[b].bg
        /\ ElemText(d, a) # <<>> /\ ElemText(d, b) # <<>>
        /\ \A k \in (MatchClose(d, a) + 1)..(b - 1) : d[k].t = "T" /\ d[k].v = <<>>

\* no marker of the content script inside another one
NoNesting(d) ==
    \A a \in 1..Len(d) :
        (d[a].t = "O" /\ d[a].cls = HIGHLIGHT_CLASS) => ~HasHighlightAncestor(d, a)

\* the page reapplyOnLoad would make of the document with the stored array
Reapplied == ReapplyLoop(doc, stored, <<>>).d

\* the text and the colour of every marker of the page, in document order
LiveDescriptors(d) ==
    [i \in DOMAIN MarkList(d) |->
        [text |-> SubSeq(DocText(d), MarkList(d)[i].s + 1, MarkList(d)[i].e),
         color |-> MarkList(d)[i].bg]]

StoredDescriptors ==
    [i \in DOMAIN stored |->
        [text |-> stored[i].text, color |-> StyleColor(stored[i].color)]]

\* needle occurs in hay
Occurs(needle, hay) ==
    /\ needle # <<>>
    /\ \E k \in 1..(Len(hay) - Len(needle) + 1) :
           SubSeq(hay, k, k + Len(needle) - 1) = needle

\* the text of the page that lies outside every marker, in document order
UnmarkedText(d) ==
    LET F[i \in 0..Len(d)] ==
            IF i = 0 THEN <<>>
            ELSE IF d[i].t = "T" /\ ~HasHighlightAncestor(d, i)
                 THEN F[i - 1] \o d[i].v
                 ELSE F[i - 1]
    IN  F[Len(d)]

\* the page once the first n descriptors of arr have been looked for
PageAfter(d, arr, n) == ReapplyLoop(d, SubSeq(arr, 1, n), <<>>).d

\* the descriptors of arr whose text is located when their turn comes
LocatedIn(d, arr) ==
    {i \in DOMAIN arr :
        Occurs(arr[i].text, UnmarkedText(PageAfter(d, arr, i - 1)))}

\* the subsequence of arr at the indices of I
SubseqAt(arr, I) ==
    LET F[i \in 0..Len(arr)] ==
            IF i = 0 THEN <<>>
            ELSE IF i \in I THEN Append(F[i - 1], arr[i]) ELSE F[i - 1]
    IN  F[Len(arr)]

(***************************************************************************)
(* Properties                                                              *)
(***************************************************************************)

\* C1: when the page is reloaded at rest with its marks persisted, then once
\* reapplyOnLoad has completed the same characters are marked with the same
\* colours as before the reload, also when the marked text occurs twice
C1_ReloadRoundTrip ==
    (snap.valid /\ load = "done" /\ sq = <<>>) => Marks(dom) = snap.marks

\* C2: for every non-empty selection selectionIsFullyHighlighted is true
\* exactly when every selected character is covered by a mark, and the
\* handler unmarks exactly then and marks otherwise
C2_ToggleDirection ==
    \A r \in UserSelections(dom) :
        LET all == \A k \in SelChars(dom, r) : Covered(dom, k)
        IN  /\ selectionIsFullyHighlighted(dom, r) <=> all
            /\ \A c \in ValidColors :
                   /\ HighlightOutcome(dom, c, r).reply = "removed" <=> all
                   /\ HighlightOutcome(dom, c, r).reply = "applied" <=> ~all

\* C3: a 'highlight' with a valid colour for a non-empty selection without a
\* marked character answers applied, and afterwards the marks are the ones
\* before plus exactly one new mark over the selection in that colour
C3_MarkOnUnmarked ==
    \A r \in UserSelections(dom), c \in ValidColors :
        (\A k \in SelChars(dom, r) : ~Covered(dom, k)) =>
            LET out == HighlightOutcome(dom, c, r)
                after == HlMarks(out.d)
            IN  /\ out.reply = "applied"
                /\ \E i \in DOMAIN after :
                       /\ after[i] = NewMark(dom, c, r)
                       /\ RemoveAt(after, i) = HlMarks(dom)

\* C4: a 'highlight' for a selection all of whose characters are marked
\* answers removed, every mark that shares a character with the selection is
\* gone as a whole and every other mark is as it was
C4_UnmarkWhole ==
    \A r \in UserSelections(dom), c \in ValidColors :
        (\A k \in SelChars(dom, r) : Covered(dom, k)) =>
            LET out == HighlightOutcome(dom, c, r)
            IN  /\ out.reply = "removed"
                /\ HlMarks(out.d) =
                       SelectSeq(HlMarks(dom),
                                 LAMBDA m : MarkChars(m) \cap SelChars(dom, r) = {})

\* C5: when a selection covers unmarked text and part of a mark M, applying
\* colour c leaves one mark of colour c whose extent is the union of the
\* selection and M, and no character of M keeps its old colour
C5_PartialOverlap ==
    \A r \in UserSelections(dom), c \in ValidColors :
        \A i \in DOMAIN HlMarks(dom) :
            LET M == HlMarks(dom)[i]
                out == HighlightOutcome(dom, c, r)
                union == MarkChars(M) \cup SelChars(dom, r)
            IN  (/\ MarkChars(M) \cap SelChars(dom, r) # {}
                 /\ \E k \in SelChars(dom, r) : ~Covered(dom, k))
                => /\ out.reply = "applied"
                   /\ \E j \in DOMAIN HlMarks(out.d) :
                          /\ MarkChars(HlMarks(out.d)[j]) = union
                          /\ HlMarks(out.d)[j].bg = StyleColor(Trim(c))
                   /\ \A k \in union : Marks(out.d)[k] = StyleColor(Trim(c))

\* C6: after an apply and after a reconcile no two marks of one colour stand
\* next to each other: a new mark next to a mark of its colour has become
\* one marker with it
C6_AdjacentMerged ==
    /\ ~AdjacentSameColour(Reapplied)
    /\ \A r \in UserSelections(dom), c \in ValidColors :
           HighlightOutcome(dom, c, r).reply = "applied"
               => ~AdjacentSameColour(HighlightOutcome(dom, c, r).d)

\* C7: whatever sequence of highlight, toggle, clearAll and reapplyOnLoad has
\* run and whichever of them runs next, no marker lies inside another marker:
\* no character is covered by more than one mark
C7_MarksNeverNest ==
    /\ NoNesting(dom)
    /\ NoNesting(clearAllHighlights(dom))
    /\ NoNesting(Reapplied)
    /\ \A r \in UserSelections(dom), c \in ValidColors :
           NoNesting(HighlightOutcome(dom, c, r).d)

\* a page with a mark in which a selection reaches from unmarked text into
\* the mark, so that the apply puts a second marker next to the first
C7_Witness ==
    \E r \in UserSelections(dom), c \in ValidColors :
        /\ HlMarks(dom) # <<>>
        /\ HighlightOutcome(dom, c, r).reply = "applied"
        /\ Len(HlMarks(HighlightOutcome(dom, c, r).d)) >= 2

C9_StorageMirrorsMarks ==
    [][(/\ sq # <<>>
        /\ Head(sq).op = "set"
        /\ Head(sq).k \in {"reply", "swSet"}
        /\ sq' = <<>>
        /\ load = "done")
       => (StoredDescriptors = LiveDescriptors(dom))']_vars

\* C10: no 'highlight' or 'clearAll' changes the page or issues a storage
\* write between the start of reapplyOnLoad and the completion of its save
C10_ReconcileBeforeUser ==
    [][(/\ Len(sq') = Len(sq) + 1
        /\ sq'[Len(sq')].k = "reply")
       => load = "done"]_vars

\* C11: a 'highlight' or 'clearAll' request never begins while an earlier
\* request of the page is still awaiting its storage write
C11_NoOverlappingRequests ==
    [][(/\ Len(sq') = Len(sq) + 1
        /\ sq'[Len(sq')].k = "reply")
       => \A i \in DOMAIN sq : sq[i].k # "reply"]_vars

\* C12: when reapplyOnLoad has read a non-empty stored array, the array it
\* saves is the subsequence of that array made of exactly the descriptors
\* whose text was located in the page, and the completion of that save leaves
\* this array in storage
C12_ReconcileKeepsLocated ==
    [][/\ (/\ sq # <<>>
           /\ Head(sq).k = "reapply"
           /\ stored # <<>>
           /\ load' = "save")
          => sq'[Len(sq')].val = SubseqAt(stored, LocatedIn(dom, stored))
       /\ (/\ sq # <<>>
           /\ Head(sq).k = "reapplySave"
           /\ load' = "done")
          => stored' = Head(sq).val]_vars

\* reapplyOnLoad is saving an array that keeps one descriptor of the stored
\* array and drops another
C12_Witness ==
    /\ load = "save"
    /\ \E i \in DOMAIN sq :
           /\ sq[i].k = "reapplySave"
           /\ sq[i].val # <<>>
           /\ Len(sq[i].val) < Len(stored)
           /\ sq[i].val = SubseqAt(stored, LocatedIn(doc, stored))

\* the array reapplyOnLoad keeps when it runs on the loaded document with arr
KeptOnLoad(arr) == ReapplyLoop(doc, arr, <<>>).kept

OccursOnce(t, hay) ==
    Cardinality({k \in 1..(Len(hay) - Len(t) + 1) :
                    SubSeq(hay, k, k + Len(t) - 1) = t}) = 1

\* C14: on the loaded page without marks, marking a selected text that
\* occurs exactly once in the document with colour c and then reloading the
\* same document leaves exactly the selected characters marked with colour c
\* and exactly one descriptor kept
C14_SingleMarkScenario ==
    (dom = doc /\ stored = <<>> /\ sq = <<>> /\ load = "done") =>
        \A r \in UserSelections(dom), c \in ValidColors :
            OccursOnce(RangeText(dom, r), DocText(doc)) =>
                LET out == HighlightOutcome(dom, c, r)
                    saved == saveHighlightsArray(SpanRecords(out.d))
                    re == ReapplyLoop(doc, saved, <<>>)
                IN  /\ Marks(re.d) =
                           [k \in 1..Len(DocText(doc)) |->
                               IF k \in SelChars(dom, r)
                               THEN StyleColor(Trim(c)) ELSE <<>>]
                    /\ Len(re.kept) = 1

\* C15: the array stored under the page key never has more than
\* MAX_PERSISTED_PER_PAGE descriptors, whichever write path wrote it
C15_StoredAtMostCap == Len(stored) <= MAX_PERSISTED_PER_PAGE

\* C16: the colour of every descriptor in storage matches the hex grammar
\* #RGB or #RRGGBB
C16_PersistedColoursHex ==
    \A i \in DOMAIN stored : isValidHexColor(stored[i].color)

\* C17: every descriptor in storage has a non-empty text, and so has every
\* descriptor of the array a 'highlight' on the page hands to storage
C17_PersistedTextNonEmpty ==
    /\ \A i \in DOMAIN stored : stored[i].text # <<>>
    /\ \A r \in UserSelections(dom), c \in ValidColors :
           LET out == HighlightOutcome(dom, c, r)
               arr == saveHighlightsArray(SpanRecords(out.d))
           IN  out.ok => \A i \in DOMAIN arr : arr[i].text # <<>>

\* the selection holds nothing but white space
BlankSelection(d, r) == r = NoSel \/ Trim(RangeText(d, r)) = <<>>

\* C18: a 'highlight' with a colour outside the hex grammar, with no
\* selection or with a selection that is empty after trimming is answered
\* with a failure and leaves the page as it was, and when the keyboard
\* command then falls back to insertSpanOnPage with such a selection the
\* page stays as it was and no storage request is issued
C18_ValidationFailuresChangeNothing ==
    [][/\ \A c \in MsgColors, r \in Selections(dom) \cup {NoSel} :
              (~isValidHexColor(Trim(c)) \/ BlankSelection(dom, r)) =>
                  /\ ~HighlightOutcome(dom, c, r).ok
                  /\ HighlightOutcome(dom, c, r).d = dom
       /\ (/\ sw.pc = "insert"
           /\ sw'.pc \in {"persist", "idle"}
           /\ BlankSelection(dom, sw.sel))
          => (dom' = dom /\ sq' = sq)]_vars

FailureReasons ==
    {"invalid_color", "no_selection", "empty_text", "not_found", "exception"}

\* C20: every failure answered to a 'highlight' carries one of the reasons
\* invalid_color, no_selection, empty_text, not_found, exception, and a
\* selection whose trimmed text is empty is answered empty_text
C20_FailureReasons ==
    \A c \in MsgColors, r \in Selections(dom) \cup {NoSel} :
        LET out == HighlightOutcome(dom, c, r)
        IN  ~out.ok =>
                /\ out.reply \in FailureReasons
                /\ (isValidHexColor(Trim(c)) /\ r # NoSel /\ BlankSelection(dom, r))
                   => out.reply = "empty_text"

\* C21: the step in which 'clearAll' is handled leaves no marker of the
\* extension in the page, whether the content script or the fallback made
\* it, and leaves the text of the document as it was, and the completion of
\* its save leaves the stored array empty
C21_ClearAllRemovesEverything ==
    [][/\ (/\ Len(sq') = Len(sq) + 1
           /\ sq'[Len(sq')].reply = "cleared")
          => (MarkList(dom') = <<>> /\ DocText(dom') = DocText(dom))
       /\ (/\ sq # <<>>
           /\ Head(sq).op = "set"
           /\ Head(sq).reply = "cleared"
           /\ sq' = Tail(sq))
          => stored' = <<>>]_vars

\* the page key of a URL: its origin and its pathname
PageKey(u) == <<Origin(u), u.pathname>>

\* the array the service worker finds for the URL u
FallbackArray(a, u) ==
    IF storageKeyForUrl(u) \in DOMAIN a THEN a[storageKeyForUrl(u)] ELSE <<>>

\* C22: a save, a reconciliation, a clear all or a fallback append for the
\* page in the tab leaves the array of every page with another page key as
\* it was, for the content script and for the service worker, and leaves
\* the preferences record as it was; a page whose key was never written
\* reads the empty array
C22_PageKeyIsolation ==
    [][/\ \A u \in WebUrls :
              PageKey(u) # PageKey(tab) =>
                  /\ readHighlightsArray(area', u) = readHighlightsArray(area, u)
                  /\ FallbackArray(area', u) = FallbackArray(area, u)
       /\ PREF_KEY \in DOMAIN area' /\ area'[PREF_KEY] = area[PREF_KEY]
       /\ \A u \in WebUrls :
              storageKey(u) \notin DOMAIN area
                  => readHighlightsArray(area, u) = <<>>]_vars

\* the fallback has appended to the array of one page while another page of
\* the same origin and a page of another origin hold arrays of their own
C22_Witness ==
    /\ Len(FallbackArray(area, tab)) >= 2
    /\ \E u, v \in WebUrls :
           /\ Origin(u) = Origin(tab) /\ u.pathname # tab.pathname
           /\ Origin(v) # Origin(tab)
           /\ Len(readHighlightsArray(area, u)) = 1
           /\ Len(readHighlightsArray(area, v)) = 1

\* the occurrences of the text t in the stream
Occurrences(combined, t) ==
    {i \in 0..(Len(combined) - Len(t)) : SubSeq(combined, i + 1, i + Len(t)) = t}

\* the score of an occurrence: one for a non-empty prefix that precedes it,
\* one for a non-empty suffix that follows it
ContextScore(combined, q, i) ==
    (IF /\ q.prefix # <<>>
        /\ i >= Len(q.prefix)
        /\ SubSeq(combined, i - Len(q.prefix) + 1, i) = q.prefix
     THEN 1 ELSE 0)
    + (IF /\ q.suffix # <<>>
          /\ i + Len(q.text) + Len(q.suffix) <= Len(combined)
          /\ SubSeq(combined, i + Len(q.text) + 1,
                    i + Len(q.text) + Len(q.suffix)) = q.suffix
       THEN 1 ELSE 0)

\* the place in the stream of the offset o of the eligible text node n
StreamPos(d, n, o) ==
    LET nodes == EligibleNodes(d)
        k == CHOOSE k \in 1..Len(nodes) : nodes[k].node = n
    IN  nodes[k].start + o

\* C23: for a text that occurs in the eligible text stream,
\* findBestMatchForQuote returns the occurrence with the highest score, the
\* score counting a matching non-empty prefix and a matching non-empty
\* suffix, and among the occurrences with that score the one that starts
\* first
C23_LocatorChoice ==
    probe.fn = "findBestMatchForQuote" =>
        LET q == probe.arg
            combined == Combined(dom, EligibleNodes(dom))
            occ == Occurrences(combined, q.text)
        IN  occ # {} =>
                /\ probe.out # NoSel
                /\ \E i \in occ :
                       /\ \A j \in occ :
                              \/ ContextScore(combined, q, i) > ContextScore(combined, q, j)
                              \/ /\ ContextScore(combined, q, i) = ContextScore(combined, q, j)
                                 /\ i <= j
                       /\ StreamPos(dom, probe.out.sn, probe.out.so) = i
                       /\ StreamPos(dom, probe.out.en, probe.out.eo) = i + Len(q.text)

\* the locator returned a later occurrence because of its suffix, the quote
\* having no prefix
C23_Witness ==
    /\ probe.fn = "findBestMatchForQuote"
    /\ probe.arg.prefix = <<>>
    /\ probe.out # NoSel
    /\ LET q == probe.arg
           combined == Combined(dom, EligibleNodes(dom))
       IN  \E i, j \in Occurrences(combined, q.text) :
               /\ i < j
               /\ ContextScore(combined, q, i) < ContextScore(combined, q, j)
               /\ StreamPos(dom, probe.out.sn, probe.out.so) = j

\* C24: after a selection is marked with its prefix and suffix captured,
\* locating its text with that prefix and suffix in the resulting page
\* resolves to the characters that were just marked
C24_ApplyLocateRoundTrip ==
    probe.fn = "applyThenLocate" =>
        /\ probe.out # NoSel
        /\ CharsBefore(dom, probe.out.sn, probe.out.so)
               = CharsBefore(dom, probe.arg.at + 1, 0)
        /\ CharsBefore(dom, probe.out.en, probe.out.eo)
               = CharsBefore(dom, probe.arg.at + 1, 0) + Len(probe.arg.quote.text)

\* the eligible text of the page before the boundary point at offset o of
\* the text node n, and after it: the text outside the markers of the
\* content script
EligibleBefore(d, n, o) ==
    LET F[i \in 0..n] ==
            IF i = 0 THEN <<>>
            ELSE IF d[i].t = "T" /\ ~HasHighlightAncestor(d, i)
                 THEN F[i - 1] \o (IF i = n THEN SubSeq(d[i].v, 1, o) ELSE d[i].v)
                 ELSE F[i - 1]
    IN  F[n]

EligibleAfter(d, n, o) ==
    LET F[i \in n..(Len(d) + 1)] ==
            IF i = Len(d) + 1 THEN <<>>
            ELSE IF d[i].t = "T" /\ ~HasHighlightAncestor(d, i)
                 THEN (IF i = n THEN SubSeq(d[i].v, o + 1, Len(d[i].v)) ELSE d[i].v)
                          \o F[i + 1]
                 ELSE F[i + 1]
    IN  F[n]

\* C25: the extraction of the quote of a non-empty selection succeeds, its
\* prefix is the last min(60, n) characters of the eligible text stream
\* before the start of the selection and its suffix the first min(60, m)
\* characters after its end, shorter or empty near the start or the end of
\* the document
C25_QuoteContext ==
    [][(/\ sw.pc = "extract" /\ sw'.pc # "extract"
        /\ sw.sel # NoSel /\ RangeText(dom, sw.sel) # <<>>)
          => /\ sw'.pc = "insert"
             /\ LET before == EligibleBefore(dom, sw.sel.sn, sw.sel.so)
                    after == EligibleAfter(dom, sw.sel.en, sw.sel.eo)
                IN  /\ sw'.quote.prefix
                           = SubSeq(before,
                                    Len(before) - Min(CONTEXT_CHARS, Len(before)) + 1,
                                    Len(before))
                    /\ sw'.quote.suffix
                           = SubSeq(after, 1, Min(CONTEXT_CHARS, Len(after)))]_vars

\* two colours are equal when the case of their letters is ignored
EqualIgnoringCase(c1, c2) ==
    /\ Len(c1) = Len(c2)
    /\ \A i \in 1..Len(c1) :
           \/ c1[i] = c2[i]
           \/ {c1[i], c2[i]} \in {{"a", "A"}, {"b", "B"}, {"c", "C"},
                                  {"d", "D"}, {"e", "E"}, {"f", "F"}}

\* C26: after addToRecents or addColorToRecents has added a colour, recents
\* has at most 5 entries, no two of them equal ignoring the case of the
\* letters, the colour added last comes first and lastColor is that colour
C26_RecentsShape ==
    probe.fn \in {"addToRecents", "addColorToRecents"} =>
        /\ PREF_KEY \in DOMAIN area
        /\ LET recents == area[PREF_KEY].recents
           IN  /\ Len(recents) <= 5
               /\ \A i, j \in 1..Len(recents) :
                      i # j => ~EqualIgnoringCase(recents[i], recents[j])
               /\ recents # <<>> /\ recents[1] = probe.arg
               /\ area[PREF_KEY].lastColor = probe.arg

\* recents holds five colours after the service worker has added '#AAA',
\* and '#aaa' is not among them
C26_Witness ==
    /\ probe.fn = "addColorToRecents"
    /\ probe.arg = <<"#", "A", "A", "A">>
    /\ PREF_KEY \in DOMAIN area
    /\ Len(area[PREF_KEY].recents) = 5
    /\ area[PREF_KEY].recents[5] = <<"#", "f", "f", "f">>
    /\ \A i \in 1..5 : area[PREF_KEY].recents[i] # <<"#", "a", "a", "a">>

\* the recents list of the preferences record
Recents(a) == IF PREF_KEY \in DOMAIN a THEN a[PREF_KEY].recents ELSE <<>>

\* C27: recents changes only in the step of a request that applied a new
\* highlight: choosing a colour, a failed request and a request that only
\* removed highlights leave it as it was
C27_RecentsOnlyOnApply ==
    [][Recents(area') # Recents(area)
          => /\ probe'.fn \in {"onCommand", "popupHighlight"}
             /\ probe'.arg \in {"applied", "fallback"}]_vars

\* C28: while the tab shows a page whose URL is not http or https, no step
\* of the keyboard command or of the popups sends a message or injects a
\* script, changes the page, or writes an array of highlights
C28_OnlyWebPages ==
    [][tab.scheme \notin {Http, Https}
          => /\ probe'.out = <<>>
             /\ dom' = dom
             /\ \A k \in DOMAIN area' :
                    k # PREF_KEY => (k \in DOMAIN area /\ area'[k] = area[k])]_vars

\* the keyboard command has been pressed on a page that is not of the web,
\* after a colour was chosen in the popup
C28_Witness ==
    /\ tab.scheme = Chrome
    /\ probe.fn = "onCommand"
    /\ probe.arg = "bad_scheme"
    /\ PREF_KEY \in DOMAIN area

\* C29: a stored descriptor whose colour fails the hex grammar is never
\* applied to the page: the pass of reapplyOnLoad over it on the page as
\* delivered creates no marker and does not keep it
C29_AppliedColoursValidated ==
    \A i \in 1..Len(stored) :
        ~isValidHexColor(stored[i].color)
            => LET pass == ReapplyStep(doc, stored[i], <<>>)
               IN  pass.d = doc /\ pass.kept = <<>>

\* a hexadecimal digit of either case
IsHexDigit(ch) ==
    \/ ch \in {"0", "1", "2", "3", "4", "5", "6", "7", "8", "9"}
    \/ ch \in {"a", "b", "c", "d", "e", "f"}
    \/ ch \in {"A", "B", "C", "D", "E", "F"}

\* '#' followed by exactly n hexadecimal digits
HashAndDigits(c, n) ==
    /\ Len(c) = n + 1
    /\ c[1] = "#"
    /\ \A i \in 2..(n + 1) : IsHexDigit(c[i])

\* C30: isValidHexColor accepts a string exactly when it is '#' followed by
\* exactly 3 or exactly 6 hexadecimal digits of either case, and the copies
\* of the content script, of the service worker and of the popup give the
\* same answer
C30_HexGrammar ==
    probe.fn = "isValidHexColor" =>
        /\ probe.out.content = (HashAndDigits(probe.arg, 3) \/ HashAndDigits(probe.arg, 6))
        /\ probe.out.worker = probe.out.content
        /\ probe.out.popup = probe.out.content

\* the validators have accepted "#aabbcc"
C30_Witness ==
    /\ probe.fn = "isValidHexColor"
    /\ probe.arg = <<"#", "a", "a", "b", "b", "c", "c">>
    /\ probe.out.content /\ probe.out.worker /\ probe.out.popup

\* C31: the fallback of the service worker (the extraction of the quote, the
\* insertion of its span, the append to storage) does not run when the
\* content script received the request and answered, with success or with a
\* failure; here the content script receives and answers every request of
\* the keyboard command, so the command is idle or waits for the answer
C31_FallbackOnlyOnMessagingFailure ==
    sw.pc \in {"idle", "wait"}

C33_AnsweredOnce ==
    (probe.fn = "onMessage" /\ probe.out.ended) => Len(probe.out.responses) = 1

\* C34: when reapplyOnLoad is about to run, every marker its loop will
\* create for a descriptor wraps exactly the text of the descriptor, and the
\* characters it wraps are contiguous unmarked characters of the page: the
\* occurrence found in the eligible stream does not straddle a marked passage
\* the stream has skipped
C34_LocatedTextIsQuote ==
    (sq # <<>> /\ Head(sq).op = "get" /\ Head(sq).k = "reapply") =>
        \A i \in DOMAIN stored :
            (stored[i].text # <<>> /\ stored[i].color # <<>>) =>
                LET d == PageAfter(dom, stored, i - 1)
                    rg == QuoteRange(d, stored[i])
                IN  rg # NoSel =>
                        /\ RangeText(d, rg) = stored[i].text
                        /\ \A k \in rg.sn..rg.en :
                               (d[k].t = "T" /\ d[k].v # <<>>)
                                   => ~HasHighlightAncestor(d, k)

\* the descriptors reapplyOnLoad keeps when it runs on the loaded document,
\* as text and colour of the marker each of them stands for
KeptDescriptors ==
    LET kept == KeptOnLoad(stored)
    IN  [i \in DOMAIN kept |->
            [text |-> kept[i].text, color |-> StyleColor(kept[i].color)]]

\* how often x is an element of the sequence s
CountIn(s, x) == Cardinality({i \in DOMAIN s : s[i] = x})

\* C35: when reapplyOnLoad is about to run on the loaded document, the
\* descriptors it will keep and the markers its loop will leave on the page
\* correspond one to one: they are as many, and each text with its colour is
\* kept as often as it is marked
C35_ReconcileAgreement ==
    (sq # <<>> /\ Head(sq).op = "get" /\ Head(sq).k = "reapply" /\ dom = doc) =>
        /\ Len(KeptDescriptors) = Len(LiveDescriptors(Reapplied))
        /\ \A i \in DOMAIN KeptDescriptors :
               CountIn(KeptDescriptors, KeptDescriptors[i])
                   = CountIn(LiveDescriptors(Reapplied), KeptDescriptors[i])

\* the range that selects the characters s+1..e of the page from inside the
\* text nodes that hold the first and the last of them
TightRange(d, s, e) ==
    LET sn == CHOOSE i \in 1..Len(d) :
                  /\ d[i].t = "T"
                  /\ CharsBefore(d, i, 0) <= s
                  /\ s < CharsBefore(d, i, 0) + Len(d[i].v)
        en == CHOOSE j \in 1..Len(d) :
                  /\ d[j].t = "T"
                  /\ CharsBefore(d, j, 0) < e
                  /\ e <= CharsBefore(d, j, 0) + Len(d[j].v)
    IN  Rng(sn, s - CharsBefore(d, sn, 0), en, e - CharsBefore(d, en, 0))

\* the page after a 'highlight' with the colour c on the selection r and a
\* second 'highlight' with c on the same characters, selected again
ToggledTwice(d, c, r) ==
    LET once == HighlightOutcome(d, c, r).d
    IN  HighlightOutcome(once, c,
                         TightRange(once, CharsBefore(d, r.sn, r.so),
                                    CharsBefore(d, r.en, r.eo))).d

\* the characters of the selection r are not marked
SelectsUnmarked(d, r) ==
    \A k \in (CharsBefore(d, r.sn, r.so) + 1)..CharsBefore(d, r.en, r.eo) :
        Marks(d)[k] = <<>>

\* C36: on every page, for every selection R of unmarked text and every
\* colour, a 'highlight' on R followed by a 'highlight' on the same R leaves
\* every character marked as it was before the first request: the marks
\* that existed keep their extent and their colour, and R is unmarked
C36_ToggleTwiceRestores ==
    \A c \in {Yellow3, Green3}, r \in Selections(dom) :
        SelectsUnmarked(dom, r) => Marks(ToggledTwice(dom, c, r)) = Marks(dom)

\* the stored record of the passage p
RecordOf(a, p) ==
    LET arr == readHighlightsArray(a, tab)
    IN  arr[CHOOSE i \in DOMAIN arr : arr[i].text = Passages[p]]

\* C37: across every operation (marking, unmarking, reloading) the stored
\* record of a passage that is marked before and after it keeps its id and
\* its createdAt
C37_IdentityStable ==
    [][\A p \in 1..Len(Passages) :
           (probe.arg[p] # 0 /\ probe'.arg[p] # 0) =>
               /\ RecordOf(area', p).id = RecordOf(area, p).id
               /\ RecordOf(area', p).createdAt = RecordOf(area, p).createdAt]_vars

====
